---- MODULE Spec2Model ----
(***************************************************************************)
(* Scraping / caching / aggregation core of the campus-information chatbot *)
(* backend: the expiring cache (CacheManager), the course merge of         *)
(* UniversalScraper, the platform sessions (LearnUs, YonseiPortal,         *)
(* LibrarySystem) and the aggregated fetch UniversalScraper.getAllCourses. *)
(*                                                                         *)
(* Three specifications share the module:                                  *)
(*   CacheSpec  - the cache operations under a clock,                      *)
(*   MergeSpec  - the pure course-merge functions on bounded inputs,       *)
(*   Spec       - sessions, network calls and the aggregated fetch.        *)
(***************************************************************************)
EXTENDS Integers, Sequences, FiniteSets, TLC

VARIABLES
    \* ---- cache (CacheManager) ----
    cacheImpl,     \* which CacheManager source file the instance is built from
    cache,         \* the Map, as a sequence of entries in insertion order
    now,           \* the wall clock, in milliseconds
    timerActive,   \* the setInterval handle is live
    nextSweep,     \* instant at which the interval timer is next due
    lastOp,        \* the last cache call and what it returned
    \* ---- course merge (UniversalScraper.mergeCourses) ----
    courses1, courses2,   \* the course lists of the two platforms
    merged,               \* mergeCourses(courses1, courses2)
    mergedRev,            \* mergeCourses(courses2, courses1)
    \* ---- sessions and aggregated fetch ----
    auth,          \* per platform: the session's isAuthenticated flag
    pc,            \* position of the getAllCourses call: idle or waiting
    opts,          \* options of the latest getAllCourses call
    pending,       \* per platform: state of the getCourses promise of that call
    fetches,       \* per platform: network requests issued by that call
    outcome,       \* how that call ended
    callSeq,       \* parity of the number of getAllCourses calls made
    storedAt,      \* the instant of the latest write of a result to the cache, if any
    sessOp,        \* the last direct data operation on a session
    \* ---- category service and per-course operations ----
    svc,           \* the last scrapeByCategory / getScrapeData / getCourseDetails call
    \* ---- retry wrappers and error classes ----
    retry,         \* the retry loop of a wrapper: attempts made, last error thrown
    \* ---- extraction (AdaptiveParser, YonseiPortal, ContentExplorer) ----
    page,          \* the document the site serves: its blocks and list containers
    ext,           \* the last extraction call: its document and what it gave
    sizes,         \* per file-size parser: the last text parsed and the value given
    \* ---- overlapping getAllCourses calls ----
    calls,         \* per call: its options, position, platform promises and outcome
    \* ---- overlapping authenticate / logout calls on one session ----
    login          \* per call: the request it is waiting for; the last flag write

cacheVars == <<cacheImpl, cache, now, timerActive, nextSweep, lastOp>>
mergeVars == <<courses1, courses2, merged, mergedRev>>
aggVars   == <<auth, pc, opts, pending, fetches, outcome, callSeq, storedAt, sessOp>>
svcVars   == <<svc>>
utilVars  == <<retry, page, ext, sizes, calls, login>>
vars      == <<cacheVars, mergeVars, aggVars, svcVars, utilVars>>

(***************************************************************************)
(* Bounds of the model                                                     *)
(***************************************************************************)
NumKeys   == 3      \* distinct cache keys used by the callers
MaxSize   == 2      \* maxSize passed to the CacheManager constructor
MaxNow    == 2      \* the clock is explored up to MaxNow minutes
MaxTtl    == 1      \* explicit TTLs range over 0..MaxTtl minutes
MaxCourses == 2     \* course records in the two platform lists together
MaxBlocks == 2      \* blocks in the document handed to an extraction call
MaxCalls  == 3      \* authenticate / logout calls in flight on one session

(***************************************************************************)
(* Cache                                                                   *)
(***************************************************************************)
MinuteMs == 60 * 1000

\* constructor arguments of the instance under study
defaultExpiryMinutes == MaxTtl
maxSize == MaxSize
cleanupIntervalMinutes == 1

Keys   == 1..NumKeys
Values == {"v1", "v2"}
Ttls   == 0..MaxTtl
NoTtl  == -1         \* the expiryMinutes argument is omitted

\* JavaScript's undefined, for a property the stored object does not have
Undefined == -2

Impls == {"part_001", "CacheManager.ts"}

\* a < b on values that may be undefined (any comparison with undefined is false)
JsLess(a, b) == a # Undefined /\ b # Undefined /\ a < b

\* ---- Map<string, ...> with insertion order ----
MapHas(m, k) == \E i \in 1..Len(m) : m[i].key = k

MapIndex(m, k) == CHOOSE i \in 1..Len(m) : m[i].key = k

MapGet(m, k) == m[MapIndex(m, k)]

MapDelete(m, k) == SelectSeq(m, LAMBDA e : e.key # k)

\* a set that always adds an entry, also when the key is present
MapSet_Append(m, e) == Append(m, e)

MapSet(m, e) ==
    IF MapHas(m, e.key)
    THEN [i \in 1..Len(m) |-> IF m[i].key = e.key THEN e ELSE m[i]]
    ELSE Append(m, e)

MapKeys(m) == {m[i].key : i \in 1..Len(m)}

\* the sort taken in descending order: the newest entry comes first
OldestKey_Newest(m) ==
    LET i == CHOOSE j \in 1..Len(m) :
                 /\ \A l \in 1..Len(m) : m[j].timestamp >= m[l].timestamp
                 /\ \A l \in 1..(j - 1) : m[l].timestamp # m[j].timestamp
    IN  m[i].key

\* first key of entries.sort((a, b) => a.timestamp - b.timestamp): the sort is
\* stable, so among equal timestamps the earliest inserted entry comes first
OldestKey(m) ==
    LET i == CHOOSE j \in 1..Len(m) :
                 /\ \A l \in 1..Len(m) : m[j].timestamp <= m[l].timestamp
                 /\ \A l \in 1..(j - 1) : m[l].timestamp # m[j].timestamp
    IN  m[i].key

\* Every entry carries, besides what the code stores, the history field due:
\* the instant at which the TTL asked for by the set that wrote it ends.

\* part_001 CacheManager.set
ExpiringSet(m, k, data, expiryMinutes, t) ==
    LET m1 == IF Len(m) >= maxSize THEN MapDelete(m, OldestKey(m)) ELSE m
    IN  MapSet(m1, [key |-> k, data |-> data, timestamp |-> t,
                    expiry |-> t + expiryMinutes * MinuteMs,
                    due |-> t + expiryMinutes * MinuteMs])

\* CacheManager.ts CacheManager.set: the value itself is stored
PlainSet(m, k, data, expiryMinutes, t) ==
    MapSet(m, [key |-> k, data |-> data, timestamp |-> Undefined, expiry |-> Undefined,
               due |-> t + expiryMinutes * MinuteMs])

CacheSet(impl, m, k, data, ttlArg, t) ==
    LET expiryMinutes == IF ttlArg = NoTtl THEN defaultExpiryMinutes ELSE ttlArg
    IN  IF impl = "part_001"
        THEN ExpiringSet(m, k, data, expiryMinutes, t)
        ELSE PlainSet(m, k, data, expiryMinutes, t)

Miss == [hit |-> FALSE, data |-> "null"]

\* part_001 CacheManager.get: the returned value
ExpiringGetResult(m, k, t) ==
    IF ~MapHas(m, k) THEN Miss
    ELSE IF MapGet(m, k).expiry < t THEN Miss
    ELSE [hit |-> TRUE, data |-> MapGet(m, k).data]

\* part_001 CacheManager.get: the store afterwards (lazy deletion)
ExpiringGetStore(m, k, t) ==
    IF MapHas(m, k) /\ MapGet(m, k).expiry < t THEN MapDelete(m, k) ELSE m

\* CacheManager.ts CacheManager.get: this.cache.get(key) || null
PlainGetResult(m, k) ==
    IF ~MapHas(m, k) THEN Miss ELSE [hit |-> TRUE, data |-> MapGet(m, k).data]

\* a cache whose get never finds anything
CacheGetResult_NeverHit(impl, m, k, t) == Miss

CacheGetResult(impl, m, k, t) ==
    IF impl = "part_001" THEN ExpiringGetResult(m, k, t) ELSE PlainGetResult(m, k)

CacheGetStore(impl, m, k, t) ==
    IF impl = "part_001" THEN ExpiringGetStore(m, k, t) ELSE m

\* CacheManager.has (same text in both files)
HasResult(m, k, t) == MapHas(m, k) /\ ~JsLess(MapGet(m, k).expiry, t)

HasStore(m, k, t) ==
    IF MapHas(m, k) /\ JsLess(MapGet(m, k).expiry, t) THEN MapDelete(m, k) ELSE m

\* CacheManager.cleanup (same text in both files)
CleanupStore(m, t) == SelectSeq(m, LAMBDA e : ~JsLess(e.expiry, t))

NoOp == [op |-> "none", key |-> 0, hit |-> FALSE, data |-> "null", due |-> 0,
         evicted |-> {}]

\* the entries, as <<key, creation timestamp>>, that a set call removed to
\* make room: those of m whose key is no longer in m1
Evicted(m, m1) ==
    {<<m[i].key, m[i].timestamp>> : i \in {j \in 1..Len(m) : ~MapHas(m1, m[j].key)}}

Op(name) == [NoOp EXCEPT !.op = name]

Set(k, v, ttlArg) ==
    /\ cache' = CacheSet(cacheImpl, cache, k, v, ttlArg, now)
    /\ lastOp' = [Op("set") EXCEPT !.key = k, !.data = v, !.evicted = Evicted(cache, cache')]
    /\ UNCHANGED <<cacheImpl, now, timerActive, nextSweep>>
    /\ UNCHANGED <<mergeVars, utilVars, aggVars, svcVars>>

Get(k) ==
    /\ cache' = CacheGetStore(cacheImpl, cache, k, now)
    /\ LET r == CacheGetResult(cacheImpl, cache, k, now)
       IN  lastOp' = [Op("get") EXCEPT !.key = k, !.hit = r.hit, !.data = r.data,
                                       !.due = IF r.hit THEN MapGet(cache, k).due ELSE 0]
    /\ UNCHANGED <<cacheImpl, now, timerActive, nextSweep>>
    /\ UNCHANGED <<mergeVars, utilVars, aggVars, svcVars>>

Has(k) ==
    /\ cache' = HasStore(cache, k, now)
    /\ lastOp' = [Op("has") EXCEPT !.key = k, !.hit = HasResult(cache, k, now)]
    /\ UNCHANGED <<cacheImpl, now, timerActive, nextSweep>>
    /\ UNCHANGED <<mergeVars, utilVars, aggVars, svcVars>>

Delete(k) ==
    /\ cache' = MapDelete(cache, k)
    /\ lastOp' = [Op("delete") EXCEPT !.key = k, !.hit = MapHas(cache, k)]
    /\ UNCHANGED <<cacheImpl, now, timerActive, nextSweep>>
    /\ UNCHANGED <<mergeVars, utilVars, aggVars, svcVars>>

Clear ==
    /\ cache' = <<>>
    /\ lastOp' = Op("clear")
    /\ UNCHANGED <<cacheImpl, now, timerActive, nextSweep>>
    /\ UNCHANGED <<mergeVars, utilVars, aggVars, svcVars>>

\* the setInterval callback: due every cleanupIntervalMinutes, possibly run late
Cleanup ==
    /\ timerActive
    /\ now >= nextSweep
    /\ cache' = CleanupStore(cache, now)
    /\ nextSweep' = nextSweep + cleanupIntervalMinutes * MinuteMs
    /\ lastOp' = Op("cleanup")
    /\ UNCHANGED <<cacheImpl, now, timerActive>>
    /\ UNCHANGED <<mergeVars, utilVars, aggVars, svcVars>>

\* destroy() that clears the entries and leaves the interval timer running
Destroy_TimerLeft ==
    /\ timerActive' = timerActive
    /\ cache' = <<>>
    /\ lastOp' = Op("destroy")
    /\ UNCHANGED <<cacheImpl, now, nextSweep>>
    /\ UNCHANGED <<mergeVars, utilVars, aggVars, svcVars>>

\* destroy(): clearInterval(this.cleanupInterval); this.clear()
Destroy ==
    /\ timerActive' = FALSE
    /\ cache' = <<>>
    /\ lastOp' = Op("destroy")
    /\ UNCHANGED <<cacheImpl, now, nextSweep>>
    /\ UNCHANGED <<mergeVars, utilVars, aggVars, svcVars>>

\* getStats (same text in both files): an entry counts as valid when
\* entry.expiry > now, and as expired otherwise
getStats(m, t) ==
    LET valid == {i \in 1..Len(m) : JsLess(t, m[i].expiry)}
    IN  [totalEntries |-> Len(m),
         validEntries |-> Cardinality(valid),
         expiredEntries |-> Len(m) - Cardinality(valid)]

GetStats ==
    /\ lastOp' = [Op("getStats") EXCEPT !.data = getStats(cache, now)]
    /\ UNCHANGED <<cacheImpl, cache, now, timerActive, nextSweep>>
    /\ UNCHANGED <<mergeVars, utilVars, aggVars, svcVars>>

Advance ==
    /\ now + MinuteMs <= MaxNow * MinuteMs
    /\ now' = now + MinuteMs
    /\ lastOp' = Op("advance")
    /\ UNCHANGED <<cacheImpl, cache, timerActive, nextSweep>>
    /\ UNCHANGED <<mergeVars, utilVars, aggVars, svcVars>>

(***************************************************************************)
(* Course merge (UniversalScraper.mergeCourses)                            *)
(* A CourseInfo is modelled by id, name, description and schedule; the     *)
(* other scalar fields (professor, semester, url, credits, department,     *)
(* platform) are copied by the same object spread as name.                 *)
(***************************************************************************)
CourseIds    == {"c1", "c2"}
Names        == {"", "X"}
Descriptions == {"", "Y", "Z", "YY"}
Schedules    == {<<>>, <<"Mon", "Mon">>, <<"Tue", "Mon">>}

CourseInfo == [id : CourseIds, name : Names, description : Descriptions, schedule : Schedules]

StrLen(s) == IF s = "" THEN 0 ELSE IF s = "YY" THEN 2 ELSE 1

Range(s) == {s[i] : i \in 1..Len(s)}

\* [...new Set(list)]: the distinct elements in order of first occurrence
RECURSIVE Dedup(_)
Dedup(s) ==
    IF s = <<>> THEN <<>>
    ELSE LET init == Dedup(SubSeq(s, 1, Len(s) - 1))
             x == s[Len(s)]
         IN  IF x \in Range(init) THEN init ELSE Append(init, x)

\* a string is falsy exactly when it is empty
getMoreDetailedDescription(desc1, desc2) ==
    IF desc1 = "" THEN desc2
    ELSE IF desc2 = "" THEN desc1
    ELSE IF StrLen(desc1) >= StrLen(desc2) THEN desc1 ELSE desc2

\* the merge with the two schedules concatenated instead of united through a Set
mergeCoursesInfo_Concat(course1, course2) ==
    [id |-> course2.id,
     name |-> course2.name,
     schedule |-> course1.schedule \o course2.schedule,
     description |-> IF course1.description = "" THEN course2.description
                     ELSE IF course2.description = "" THEN course1.description
                     ELSE IF StrLen(course1.description) >= StrLen(course2.description)
                          THEN course1.description ELSE course2.description]

\* the merge keeping only the second record's schedule, like its other fields
mergeCoursesInfo_Overwrite(course1, course2) ==
    [id |-> course2.id,
     name |-> course2.name,
     schedule |-> course2.schedule,
     description |-> IF course1.description = "" THEN course2.description
                     ELSE IF course2.description = "" THEN course1.description
                     ELSE IF StrLen(course1.description) >= StrLen(course2.description)
                          THEN course1.description ELSE course2.description]

\* { ...course1, ...course2, schedule: ..., description: ... }
mergeCoursesInfo(course1, course2) ==
    [id |-> course2.id,
     name |-> course2.name,
     schedule |-> Dedup(course1.schedule \o course2.schedule),
     description |-> getMoreDetailedDescription(course1.description, course2.description)]

\* courseMap after folding the list: a Map in insertion order
RECURSIVE FoldCourses(_, _)
FoldCourses(m, list) ==
    IF list = <<>> THEN m
    ELSE LET course == Head(list)
         IN  IF ~MapHas(m, course.id)
             THEN FoldCourses(Append(m, [key |-> course.id, val |-> course]), Tail(list))
             ELSE FoldCourses(
                    MapSet(m, [key |-> course.id,
                               val |-> mergeCoursesInfo(MapGet(m, course.id).val, course)]),
                    Tail(list))

\* the two lists put one after the other, with no merge of equal ids
mergeCourses_Concat(list1, list2) == list1 \o list2

mergeCourses(list1, list2) ==
    LET m == FoldCourses(<<>>, list1 \o list2)
    IN  [i \in 1..Len(m) |-> m[i].val]

\* a platform's parser delivers one more course record, and the two lists are
\* merged, in both argument orders
AddCourse1(c) ==
    /\ Len(courses1) + Len(courses2) < MaxCourses
    /\ courses1' = Append(courses1, c)
    /\ merged' = mergeCourses(courses1', courses2)
    /\ mergedRev' = mergeCourses(courses2, courses1')
    /\ UNCHANGED courses2
    /\ UNCHANGED <<cacheVars, aggVars, svcVars, utilVars>>

AddCourse2(c) ==
    /\ Len(courses1) + Len(courses2) < MaxCourses
    /\ courses2' = Append(courses2, c)
    /\ merged' = mergeCourses(courses1, courses2')
    /\ mergedRev' = mergeCourses(courses2', courses1)
    /\ UNCHANGED courses1
    /\ UNCHANGED <<cacheVars, aggVars, svcVars, utilVars>>

(***************************************************************************)
(* Platform sessions                                                       *)
(***************************************************************************)
Platforms == {"learnus", "portal", "library"}

\* the data operations of each session class
SessionOps(p) ==
    IF p = "learnus"
    THEN {"getCourses", "getCourseDetails", "getAssignments", "scrapeCourseNotices",
          "getScrapeData"}
    ELSE IF p = "portal"
    THEN {"getCourses", "getCourseDetails", "scrapeNotices", "scrapeCourseNotices",
          "getAssignments"}
    ELSE {"getLibraryResourceStatus", "getScrapeData", "getRooms", "reserveRoom",
          "cancelReservation", "getRoomSchedule"}

\* the operation starts with: if (!this.isAuthenticated) throw new AuthenticationError
ChecksAuthentication(p, op) ==
    ~(p = "library" /\ op \in {"getLibraryResourceStatus", "getScrapeData"})

\* every data operation of some session class
DataOps == UNION {SessionOps(p) : p \in Platforms}

\* what the remote site may answer to a request of a data operation:
\* a page that parses, a 401/403 answer (authentication required), another
\* failed request, a page the parser rejects
Responses == {"ok", "Unauthorized", "NetworkError", "ParseError"}

\* handleError: an axios error, whatever its status, becomes a NetworkError
handleError(r) == IF r = "Unauthorized" THEN "NetworkError" ELSE r

\* what the login exchange may give: the POST answer with or without the
\* logged-in marker, a failed GET of the login page, a failed POST
LoginResponses == {"marker", "nomarker", "getFailure", "postFailure"}

LoginFailures == {"getFailure", "postFailure"}

\* authenticate() whose catch block clears the flag
AuthenticateFlag_ClearsOnFailure(flag, r) == r = "marker"

\* authenticate() that never takes the flag back
AuthenticateFlag_Sticky(flag, r) == IF r \in LoginFailures THEN flag ELSE (flag \/ r = "marker")

\* this.isAuthenticated after authenticate(): written only when the POST
\* response is read
AuthenticateFlag(flag, r) == IF r \in LoginFailures THEN flag ELSE (r = "marker")

\* authenticate() with its catch block turning every failure into NetworkError
AuthenticateResult_Network(r) ==
    IF r \in LoginFailures THEN "NetworkError"
    ELSE IF r = "marker" THEN "true" ELSE "false"

\* what authenticate() returns or throws
AuthenticateResult(r) ==
    IF r \in LoginFailures THEN "AuthenticationError"
    ELSE IF r = "marker" THEN "true" ELSE "false"

\* logout() clearing the flag only when the request succeeds
LogoutFlag_OnSuccess(flag, r) == IF r = "ok" THEN FALSE ELSE flag

\* this.isAuthenticated after logout(): cleared in the try and in the catch
LogoutFlag(flag, r) == FALSE

NoSessOp == [platform |-> "none", op |-> "none", authenticated |-> FALSE,
             requestIssued |-> FALSE, response |-> "none", result |-> "none"]

\* authenticate(): the flag is written when the login POST response is read;
\* a failure of the GET or of the POST raises AuthenticationError and writes nothing
Authenticate(p, r) ==
    /\ r \in LoginResponses
    /\ auth' = [auth EXCEPT ![p] = AuthenticateFlag(@, r)]
    /\ UNCHANGED <<pc, opts, pending, fetches, outcome, callSeq, storedAt, sessOp>>
    /\ UNCHANGED <<cacheVars, mergeVars, utilVars>>
    /\ UNCHANGED svc

\* logout(): the flag is cleared whether the request succeeds or fails
Logout(p) ==
    /\ \E r \in {"ok", "NetworkError"} : auth' = [auth EXCEPT ![p] = LogoutFlag(@, r)]
    /\ UNCHANGED <<pc, opts, pending, fetches, outcome, callSeq, storedAt, sessOp>>
    /\ UNCHANGED <<cacheVars, mergeVars, utilVars>>
    /\ UNCHANGED svc

\* authenticate() called directly on a session, its outcome recorded
AuthenticateCall(p, r) ==
    /\ r \in LoginResponses
    /\ auth' = [auth EXCEPT ![p] = AuthenticateFlag(@, r)]
    /\ sessOp' = [platform |-> p, op |-> "authenticate", authenticated |-> auth[p],
                  requestIssued |-> TRUE, response |-> r,
                  result |-> AuthenticateResult(r)]
    /\ UNCHANGED <<pc, opts, pending, fetches, outcome, callSeq, storedAt>>
    /\ UNCHANGED <<cacheVars, mergeVars, utilVars>>
    /\ UNCHANGED svc

\* logout() called directly on a session, with the site's answer r
LogoutCall(p, r) ==
    /\ r \in {"ok", "NetworkError"}
    /\ auth' = [auth EXCEPT ![p] = LogoutFlag(@, r)]
    /\ sessOp' = [platform |-> p, op |-> "logout", authenticated |-> auth[p],
                  requestIssued |-> TRUE, response |-> r, result |-> "void"]
    /\ UNCHANGED <<pc, opts, pending, fetches, outcome, callSeq, storedAt>>
    /\ UNCHANGED <<cacheVars, mergeVars, utilVars>>
    /\ UNCHANGED svc

\* the order of the authenticate calls in UniversalScraper.initialize
InitializeOrder == <<"learnus", "portal", "library">>

\* whether initialize reaches platform number i: with scrapingConfig.concurrent
\* all three calls are started, otherwise a call that throws ends the sequence
InitializeReaches(concurrent, r, i) ==
    concurrent \/ \A j \in 1..(i - 1) : r[InitializeOrder[j]] \notin LoginFailures

\* initialize(): resolves unless an authenticate call throws; the returned
\* booleans are not looked at
InitializeResult(concurrent, r) ==
    IF \E p \in Platforms : r[p] \in LoginFailures THEN "AuthenticationError" ELSE "void"

\* UniversalScraper.initialize() with the answers r of the three sites (in the
\* concurrent mode the calls that Promise.all no longer waits for still
\* process their responses)
Initialize(concurrent, r) ==
    /\ r \in [Platforms -> LoginResponses]
    /\ auth' = [p \in Platforms |->
                 IF \E i \in 1..3 : InitializeOrder[i] = p /\ InitializeReaches(concurrent, r, i)
                 THEN AuthenticateFlag(auth[p], r[p]) ELSE auth[p]]
    /\ sessOp' = [platform |-> "all", op |-> "initialize",
                  authenticated |-> \A p \in Platforms : auth[p],
                  requestIssued |-> TRUE,
                  response |-> [concurrent |-> concurrent, answers |-> r],
                  result |-> InitializeResult(concurrent, r)]
    /\ UNCHANGED <<pc, opts, pending, fetches, outcome, callSeq, storedAt>>
    /\ UNCHANGED <<cacheVars, mergeVars, utilVars>>
    /\ UNCHANGED svc

\* one data operation called directly on a session, with the site's answer r
DataOp(p, op, r) ==
    /\ op \in SessionOps(p)
    /\ r \in Responses
    /\ sessOp' = IF ChecksAuthentication(p, op) /\ ~auth[p]
                 THEN [platform |-> p, op |-> op, authenticated |-> auth[p],
                       requestIssued |-> FALSE, response |-> "none",
                       result |-> "AuthenticationError"]
                 ELSE [platform |-> p, op |-> op, authenticated |-> auth[p],
                       requestIssued |-> TRUE, response |-> r,
                       result |-> handleError(r)]
    /\ UNCHANGED <<auth, pc, opts, pending, fetches, outcome, callSeq, storedAt>>
    /\ UNCHANGED <<cacheVars, mergeVars, utilVars>>
    /\ UNCHANGED svc

(***************************************************************************)
(* Aggregated fetch: UniversalScraper.getAllCourses                        *)
(***************************************************************************)
\* the platforms of Promise.all([learnUs.getCourses, yonseiPortal.getCourses])
CoursePlatforms == {"learnus", "portal"}

AllCoursesKey == 1    \* const cacheKey = 'all_courses'

\* course lists the two sites may serve
CoursePages(p) ==
    IF p = "learnus"
    THEN {<<>>, <<[id |-> "c1", name |-> "X", description |-> "", schedule |-> <<"Mon">>]>>}
    ELSE {<<>>, <<[id |-> "c1", name |-> "", description |-> "Y", schedule |-> <<"Tue", "Mon">>]>>}

NotCalled == [state |-> "none", success |-> FALSE, data |-> <<>>, error |-> "none"]

Fulfilled(list) == [state |-> "fulfilled", success |-> TRUE, data |-> list, error |-> "none"]

Rejected(e) == [state |-> "rejected", success |-> FALSE, data |-> <<>>, error |-> e]

InFlight == [state |-> "inflight", success |-> FALSE, data |-> <<>>, error |-> "none"]

NoOutcome == [status |-> "none", error |-> "none", causes |-> {}, value |-> "none"]

\* the catch block of getAllCourses: which error type leaves the call
Rethrown(e) ==
    IF e = "AuthenticationError" THEN "AuthenticationError"
    ELSE IF e = "NetworkError" THEN "NetworkError"
    ELSE "ParseError"

Raised(e, causes) == [status |-> "error", error |-> Rethrown(e), causes |-> causes,
                      value |-> "none"]

\* the result object built after both promises are fulfilled
AllCoursesResult(l, p) ==
    LET learnUsCourses == IF l.success THEN l.data ELSE <<>>
        portalCourses  == IF p.success THEN p.data ELSE <<>>
    IN  [success |-> TRUE,
         data |-> mergeCourses(learnUsCourses, portalCourses),
         source |-> "UniversalScraper",
         platforms |-> [learnus |-> l.success, portal |-> p.success]]

\* what this.cacheManager.get(cacheKey) hands back on a hit
CachedValue(impl, data) ==
    IF impl = "part_001"
    THEN [success |-> TRUE, data |-> data, source |-> "cache"]
    ELSE data

\* learnUs.getCourses / yonseiPortal.getCourses up to their first await
GetCoursesStart(p, a) ==
    IF ~a[p] THEN Rejected("AuthenticationError") ELSE InFlight

\* Promise.all rejects with the rejection that happened first; when both calls
\* are rejected before any request, that is the first promise of the array
FirstUnauthenticated(a) == IF ~a["learnus"] THEN "learnus" ELSE "portal"

ReadsCache_IgnoresForce(useCache, forceRefresh) == useCache

\* if (options?.useCache && !options?.forceRefresh): whether the call reads the cache
ReadsCache(useCache, forceRefresh) == useCache /\ ~forceRefresh

\* getAllCourses(options) from the call to its first suspension (or to its end)
StartCall(useCache, forceRefresh) ==
    /\ pc = "idle"
    /\ \A p \in CoursePlatforms : pending[p].state # "inflight"
    /\ opts' = [useCache |-> useCache, forceRefresh |-> forceRefresh]
    /\ callSeq' = 1 - callSeq
    /\ LET read == ReadsCache(useCache, forceRefresh)
           r == CacheGetResult(cacheImpl, cache, AllCoursesKey, now)
       IN  /\ cache' = IF read THEN CacheGetStore(cacheImpl, cache, AllCoursesKey, now) ELSE cache
           /\ IF read /\ r.hit
              THEN /\ outcome' = [status |-> "ok", error |-> "none", causes |-> {},
                                  value |-> CachedValue(cacheImpl, r.data)]
                   /\ pending' = [p \in CoursePlatforms |-> NotCalled]
                   /\ fetches' = [p \in CoursePlatforms |-> 0]
                   /\ pc' = "idle"
              ELSE /\ pending' = [p \in CoursePlatforms |-> GetCoursesStart(p, auth)]
                   /\ fetches' = [p \in CoursePlatforms |-> IF auth[p] THEN 1 ELSE 0]
                   /\ IF \E p \in CoursePlatforms : ~auth[p]
                      THEN /\ outcome' = Raised("AuthenticationError", {FirstUnauthenticated(auth)})
                           /\ pc' = "idle"
                      ELSE /\ outcome' = NoOutcome
                           /\ pc' = "waiting"
    /\ UNCHANGED <<auth, storedAt, sessOp>>
    /\ UNCHANGED <<cacheImpl, now, timerActive, nextSweep, lastOp, mergeVars, utilVars>>
    /\ UNCHANGED svc

\* a platform answers with a page the parser accepts
RespondOk(p, list) ==
    /\ pending[p].state = "inflight"
    /\ list \in CoursePages(p)
    /\ pending' = [pending EXCEPT ![p] = Fulfilled(list)]
    /\ IF pc = "waiting" /\ \A q \in CoursePlatforms \ {p} : pending[q].state = "fulfilled"
       THEN LET l == pending'["learnus"]
                pr == pending'["portal"]
            IN  IF ~l.success /\ ~pr.success
                THEN /\ outcome' = Raised("Error", {})
                     /\ UNCHANGED <<cache, storedAt>>
                     /\ pc' = "idle"
                ELSE /\ outcome' = [status |-> "ok", error |-> "none", causes |-> {},
                                    value |-> AllCoursesResult(l, pr)]
                     /\ IF opts.useCache
                        THEN /\ cache' = CacheSet(cacheImpl, cache, AllCoursesKey,
                                                  AllCoursesResult(l, pr), defaultExpiryMinutes, now)
                             /\ storedAt' = {now}
                        ELSE UNCHANGED <<cache, storedAt>>
                     /\ pc' = "idle"
       ELSE UNCHANGED <<cache, storedAt, outcome, pc>>
    /\ UNCHANGED <<auth, opts, fetches, callSeq, sessOp>>
    /\ UNCHANGED <<cacheImpl, now, timerActive, nextSweep, lastOp, mergeVars, utilVars>>
    /\ UNCHANGED svc

\* a platform's request fails (axios error) or its page does not parse
RespondFail(p, e) ==
    /\ pending[p].state = "inflight"
    /\ e \in {"NetworkError", "ParseError"}
    /\ pending' = [pending EXCEPT ![p] = Rejected(e)]
    /\ IF pc = "waiting"
       THEN /\ outcome' = Raised(e, {p})
            /\ pc' = "idle"
       ELSE UNCHANGED <<outcome, pc>>
    /\ UNCHANGED <<auth, opts, fetches, callSeq, storedAt, sessOp>>
    /\ UNCHANGED <<cacheVars, mergeVars, utilVars>>
    /\ UNCHANGED svc

\* time passes while the service runs
Tick ==
    /\ now + MinuteMs <= MaxNow * MinuteMs
    /\ now' = now + MinuteMs
    /\ UNCHANGED <<cacheImpl, cache, timerActive, nextSweep, lastOp>>
    /\ UNCHANGED <<mergeVars, utilVars, aggVars, svcVars>>

\* the cache's interval timer fires while the service runs
Sweep ==
    /\ timerActive
    /\ now >= nextSweep
    /\ cache' = CleanupStore(cache, now)
    /\ nextSweep' = nextSweep + cleanupIntervalMinutes * MinuteMs
    /\ UNCHANGED <<cacheImpl, now, timerActive, lastOp>>
    /\ UNCHANGED <<mergeVars, utilVars, aggVars, svcVars>>

(***************************************************************************)
(* Category service: BackendWebScrapingService.scrapeByCategory,           *)
(* LearnUs.getScrapeData, and UniversalScraper.getCourseDetails            *)
(***************************************************************************)
\* the category vocabulary of the service's callers
Vocabulary == {"course", "assignment", "notice", "academic", "scholarship", "career",
               "library", "studyroom", "facilities"}

Categories == Vocabulary \cup {"notices", "bogus"}

Campuses == {"sinchon", "wonju"}

Counts == {5, 20}

\* const { campus = '신촌', count = 20 } = options
DefaultRequest(category) == <<category, "sinchon", 20>>

\* the requests explored: every category with the default options, and the
\* course category with every campus and count
Requests ==
    {DefaultRequest(c) : c \in Categories}
      \cup {<<"course", campus, n>> : campus \in Campuses, n \in Counts}

\* getScrapeData is called directly with the course requests and with one
\* category its switch does not know
DirectRequests == {q \in Requests : q[1] \in {"course", "bogus"}}

\* the switch of scrapeByCategory: the sessions a category is sent to
scrapeByCategoryPlatforms(category) ==
    IF category \in {"notices", "academic", "scholarship"} THEN {"portal"}
    ELSE IF category \in {"course", "assignment"} THEN {"learnus"}
    ELSE IF category = "library" THEN {"library"}
    ELSE {}

\* the switch of ScrapingService.scrape on config.target (earlier service file)
scrapeTarget(target) ==
    IF target \in {"learnus", "course", "assignment", "notice"} THEN {"learnus"}
    ELSE IF target \in {"portal", "academic", "scholarship", "career"} THEN {"portal"}
    ELSE IF target \in {"library", "books", "studyroom", "facilities"} THEN {"library"}
    ELSE {}

\* the switch of LearnUs.getScrapeData
LearnUsCategories == {"course", "notice", "assignment"}

\* const cacheKey = `learnus_${category}_${config.campus}`
LearnUsCacheKey(category, campus, count) == <<"learnus", category, campus>>

\* convertToScrapedData: the payload, tagged here with the request it answers
ScrapedDataOf(category, campus, count) ==
    [type |-> category, request |-> <<category, campus, count>>]

NoData == [type |-> "none", request |-> <<>>]

SessionOk(data, hit, issued, store) ==
    [status |-> "ok", error |-> "none", data |-> data, hit |-> hit,
     requestIssued |-> issued, store |-> store]

SessionRaises(e, issued, store) ==
    [status |-> "error", error |-> e, data |-> NoData, hit |-> FALSE,
     requestIssued |-> issued, store |-> store]

\* LearnUs.getScrapeData(category, config) with the site's answer r
LearnUsGetScrapeData(impl, m, a, category, campus, count, r, t) ==
    IF ~a THEN SessionRaises("AuthenticationError", FALSE, m)
    ELSE LET cacheKey == LearnUsCacheKey(category, campus, count)
             cachedData == CacheGetResult(impl, m, cacheKey, t)
             m1 == CacheGetStore(impl, m, cacheKey, t)
         IN  IF cachedData.hit THEN SessionOk(cachedData.data, TRUE, FALSE, m1)
             ELSE IF category \notin LearnUsCategories
             THEN SessionRaises("ParseError", FALSE, m1)
             ELSE IF r = "ok"
             THEN LET scrapedData == ScrapedDataOf(category, campus, count)
                  IN  SessionOk(scrapedData, FALSE, TRUE,
                                CacheSet(impl, m1, cacheKey, scrapedData, NoTtl, t))
             ELSE SessionRaises(handleError(r), TRUE, m1)

\* YonseiPortal.getScrapeData(category, config): checks the session, then fetches
PortalGetScrapeData(m, a, category, campus, count, r) ==
    IF ~a THEN SessionRaises("AuthenticationError", FALSE, m)
    ELSE IF r = "ok" THEN SessionOk(ScrapedDataOf(category, campus, count), FALSE, TRUE, m)
    ELSE SessionRaises(handleError(r), TRUE, m)

\* LibrarySystem.getScrapeData(url, config): fetchPage, parsePage, no session check
LibraryGetScrapeData(m, category, campus, count, r) ==
    IF r = "ok" THEN SessionOk(ScrapedDataOf(category, campus, count), FALSE, TRUE, m)
    ELSE SessionRaises(handleError(r), TRUE, m)

\* the catch block of scrapeByCategory: which error type leaves the call
ScrapeCatch(e) == IF e \in {"NetworkError", "ParseError"} THEN e ELSE "Error"

NoSvc == [op |-> "none", category |-> "none", campus |-> "none", count |-> 0,
          authenticated |-> FALSE, platforms |-> {}, target |-> {},
          status |-> "none", error |-> "none", raised |-> {},
          hit |-> FALSE, data |-> NoData, requestIssued |-> FALSE, stored |-> FALSE]

\* the record of a finished call, from what the session call gave
SvcRecord(op, category, campus, count, a, platforms, sess, error, stored) ==
    [op |-> op, category |-> category, campus |-> campus, count |-> count,
     authenticated |-> a, platforms |-> platforms, target |-> scrapeTarget(category),
     status |-> sess.status, error |-> error,
     raised |-> IF sess.status = "error" THEN {sess.error} ELSE {},
     hit |-> sess.hit, data |-> sess.data, requestIssued |-> sess.requestIssued,
     stored |-> stored]

\* scrapeByCategory(category, {campus, count}) with the site's answer r
ScrapeByCategory(category, campus, count, r) ==
    /\ r \in Responses
    /\ LET platforms == scrapeByCategoryPlatforms(category)
           sess == IF platforms = {"learnus"}
                   THEN LearnUsGetScrapeData(cacheImpl, cache, auth["learnus"],
                                             category, campus, count, r, now)
                   ELSE IF platforms = {"portal"}
                   THEN PortalGetScrapeData(cache, auth["portal"], category, campus, count, r)
                   ELSE IF platforms = {"library"}
                   THEN LibraryGetScrapeData(cache, category, campus, count, r)
                   ELSE SessionRaises("Error", FALSE, cache)
           a == platforms # {} /\ \A p \in platforms : auth[p]
       IN  /\ cache' = sess.store
           /\ svc' = SvcRecord("scrapeByCategory", category, campus, count, a, platforms, sess,
                               IF sess.status = "ok" THEN "none" ELSE ScrapeCatch(sess.error),
                               sess.status = "ok" /\ ~sess.hit /\ platforms = {"learnus"})
    /\ UNCHANGED <<cacheImpl, now, timerActive, nextSweep, lastOp>>
    /\ UNCHANGED <<mergeVars, utilVars, aggVars>>

\* learnUs.getScrapeData(category, config) called directly
GetScrapeData(category, campus, count, r) ==
    /\ r \in Responses
    /\ LET sess == LearnUsGetScrapeData(cacheImpl, cache, auth["learnus"],
                                        category, campus, count, r, now)
       IN  /\ cache' = sess.store
           /\ svc' = SvcRecord("getScrapeData", category, campus, count, auth["learnus"],
                               {"learnus"}, sess, sess.error,
                               sess.status = "ok" /\ ~sess.hit)
    /\ UNCHANGED <<cacheImpl, now, timerActive, nextSweep, lastOp>>
    /\ UNCHANGED <<mergeVars, utilVars, aggVars>>

\* const cacheKey = `course_details_${courseId}`, for the one course id explored
CourseDetailsKey == <<"course_details", "c1">>

\* the ScrapingResult a session's getCourseDetails returns for the course
CourseDetailsOf(p) == [type |-> "courseDetails", id |-> "c1", platform |-> p]

\* learnUs.getCourseDetails / yonseiPortal.getCourseDetails with the site's
\* answer r: the session check, the request, the session's catch block
SessionGetCourseDetails(p, a, r, m) ==
    IF ~a THEN SessionRaises("AuthenticationError", FALSE, m)
    ELSE IF r = "ok" THEN SessionOk(CourseDetailsOf(p), FALSE, TRUE, m)
    ELSE SessionRaises(handleError(r), TRUE, m)

\* UniversalScraper.getCourseDetails(courseId, options): the cache read, both
\* session calls with .catch(() => null), learnUsDetails || portalDetails, the
\* cache write, and the catch block
GetCourseDetails(useCache, forceRefresh, rl, rp) ==
    /\ rl \in Responses
    /\ rp \in Responses
    /\ LET read == useCache /\ ~forceRefresh
           cached == CacheGetResult(cacheImpl, cache, CourseDetailsKey, now)
           m1 == IF read THEN CacheGetStore(cacheImpl, cache, CourseDetailsKey, now) ELSE cache
           learnUsDetails == SessionGetCourseDetails("learnus", auth["learnus"], rl, m1)
           portalDetails == SessionGetCourseDetails("portal", auth["portal"], rp, m1)
           details == IF learnUsDetails.status = "ok" THEN learnUsDetails ELSE portalDetails
           below == {d.error : d \in {x \in {learnUsDetails, portalDetails} : x.status = "error"}}
           call == [NoSvc EXCEPT !.op = "getCourseDetails",
                                 !.authenticated = \A p \in CoursePlatforms : auth[p],
                                 !.platforms = CoursePlatforms]
       IN  IF read /\ cached.hit
           THEN /\ cache' = m1
                /\ svc' = [call EXCEPT !.status = "ok", !.hit = TRUE, !.data = cached.data]
           ELSE IF details.status = "ok"
           THEN /\ cache' = IF useCache
                            THEN CacheSet(cacheImpl, m1, CourseDetailsKey, details.data,
                                          defaultExpiryMinutes, now)
                            ELSE m1
                /\ svc' = [call EXCEPT !.status = "ok", !.data = details.data,
                                       !.raised = below, !.requestIssued = TRUE,
                                       !.stored = useCache]
           ELSE /\ cache' = m1
                /\ svc' = [call EXCEPT !.status = "error", !.error = Rethrown("Error"),
                                       !.raised = below,
                                       !.requestIssued = \E p \in CoursePlatforms : auth[p]]
    /\ UNCHANGED <<cacheImpl, now, timerActive, nextSweep, lastOp>>
    /\ UNCHANGED <<mergeVars, utilVars, aggVars>>

\* const cacheKey = `assignments_${courseId}`, for the one course id explored
AssignmentsKey == <<"assignments", "c1">>

\* the ScrapingResult a session's getAssignments returns for the course
AssignmentsOf(p) == [type |-> "assignments", id |-> "c1", platform |-> p]

\* this.getCourseDetails(courseId, options) as getAssignments calls it: what it
\* returns or throws, the store it leaves, and what courseDetails.data.platform
\* then reads (the result returned from a part_001 hit has the stored result
\* in its data field, which has no platform field)
CourseDetailsCall(impl, m, a, useCache, forceRefresh, rl, rp, t) ==
    LET read == ReadsCache(useCache, forceRefresh)
        cached == CacheGetResult(impl, m, CourseDetailsKey, t)
        m1 == IF read THEN CacheGetStore(impl, m, CourseDetailsKey, t) ELSE m
        learnUsDetails == SessionGetCourseDetails("learnus", a["learnus"], rl, m1)
        portalDetails == SessionGetCourseDetails("portal", a["portal"], rp, m1)
        details == IF learnUsDetails.status = "ok" THEN learnUsDetails ELSE portalDetails
    IN  IF read /\ cached.hit
        THEN [status |-> "ok", error |-> "none", hit |-> TRUE, store |-> m1,
              platform |-> IF impl = "part_001" THEN "undefined" ELSE cached.data.platform]
        ELSE IF details.status = "ok"
        THEN [status |-> "ok", error |-> "none", hit |-> FALSE,
              store |-> IF useCache
                        THEN CacheSet(impl, m1, CourseDetailsKey, details.data,
                                      defaultExpiryMinutes, t)
                        ELSE m1,
              platform |-> details.data.platform]
        ELSE [status |-> "error", error |-> Rethrown("Error"), hit |-> FALSE,
              store |-> m1, platform |-> "none"]

\* learnUs.getAssignments / yonseiPortal.getAssignments with the site's answer r
SessionGetAssignments(p, a, r, m) ==
    IF ~a THEN SessionRaises("AuthenticationError", FALSE, m)
    ELSE IF r = "ok" THEN SessionOk(AssignmentsOf(p), FALSE, TRUE, m)
    ELSE SessionRaises(handleError(r), TRUE, m)

\* UniversalScraper.getAssignments(courseId, options): the cache read, the call
\* of getCourseDetails with the same options, the session call on the platform
\* the details name, the cache write, and the catch block
GetAssignments(useCache, forceRefresh, rl, rp, ra) ==
    /\ rl \in Responses /\ rp \in Responses /\ ra \in Responses
    /\ LET read == ReadsCache(useCache, forceRefresh)
           cached == CacheGetResult(cacheImpl, cache, AssignmentsKey, now)
           m1 == IF read THEN CacheGetStore(cacheImpl, cache, AssignmentsKey, now) ELSE cache
           courseDetails == CourseDetailsCall(cacheImpl, m1, auth, useCache, forceRefresh,
                                              rl, rp, now)
           target == IF courseDetails.platform = "learnus" THEN "learnus" ELSE "portal"
           assignments == SessionGetAssignments(target, auth[target], ra, courseDetails.store)
           call == [NoSvc EXCEPT !.op = "getAssignments",
                                 !.authenticated = \A p \in CoursePlatforms : auth[p],
                                 !.platforms = CoursePlatforms]
       IN  IF read /\ cached.hit
           THEN /\ cache' = m1
                /\ svc' = [call EXCEPT !.status = "ok", !.hit = TRUE, !.data = cached.data]
           ELSE IF courseDetails.status = "error"
           THEN /\ cache' = courseDetails.store
                /\ svc' = [call EXCEPT !.status = "error",
                                       !.error = Rethrown(courseDetails.error),
                                       !.raised = {courseDetails.error}]
           ELSE IF assignments.status = "ok"
           THEN /\ cache' = IF useCache
                            THEN CacheSet(cacheImpl, courseDetails.store, AssignmentsKey,
                                          assignments.data, defaultExpiryMinutes, now)
                            ELSE courseDetails.store
                /\ svc' = [call EXCEPT !.status = "ok", !.data = assignments.data,
                                       !.target = {target}, !.requestIssued = TRUE,
                                       !.stored = useCache]
           ELSE /\ cache' = courseDetails.store
                /\ svc' = [call EXCEPT !.status = "error",
                                       !.error = Rethrown(assignments.error),
                                       !.raised = {assignments.error},
                                       !.target = {target},
                                       !.requestIssued = assignments.requestIssued]
    /\ UNCHANGED <<cacheImpl, now, timerActive, nextSweep, lastOp>>
    /\ UNCHANGED <<mergeVars, utilVars, aggVars>>

(***************************************************************************)
(* Error classes (errors/NetworkError.ts, errors/ScrapingError.ts) and the *)
(* retry wrappers (FrontendWebScrapingService.withRetry,                   *)
(* BackendChatService.processMessage)                                      *)
(***************************************************************************)
ErrorFiles == {"NetworkError.ts", "ScrapingError.ts"}

\* the kinds an error is constructed with: the NetworkErrorType union, and
\* 'request', which the sessions pass to the ScrapingError.ts constructor
NetworkErrorKinds(file) ==
    IF file = "NetworkError.ts"
    THEN {"timeout", "rateLimit", "connection", "unknown"}
    ELSE {"timeout", "rateLimit", "connection", "unknown", "request"}

\* the static factories each file has
Factories(file) ==
    IF file = "NetworkError.ts"
    THEN {"createTimeout", "createRateLimit", "createConnection", "createUnknown"}
    ELSE {"createTimeout", "createRateLimit"}

\* the kind a factory passes to the constructor
FactoryKind(made) ==
    IF made = "createTimeout" THEN "timeout"
    ELSE IF made = "createRateLimit" THEN "rateLimit"
    ELSE IF made = "createConnection" THEN "connection"
    ELSE "unknown"

\* the type field the constructor stores: options.type in NetworkError.ts,
\* super(message, `network.${type}`, details) in ScrapingError.ts
StoredType(file, kind) ==
    IF file = "NetworkError.ts" THEN kind ELSE "network." \o kind

\* isRetryable(): ['timeout', 'connection', 'rateLimit'].includes(type)
isRetryable(type) == type \in {"timeout", "connection", "rateLimit"}

NoError == [class |-> "none", file |-> "none", made |-> "none", kind |-> "none",
            type |-> "none", retryable |-> FALSE]

\* new NetworkError(...) of the given file, with what isRetryable() answers on it
NewNetworkError(file, made, kind) ==
    [class |-> "NetworkError", file |-> file, made |-> made, kind |-> kind,
     type |-> StoredType(file, kind), retryable |-> isRetryable(StoredType(file, kind))]

\* new AuthenticationError(...) / new ParseError(...): no isRetryable method
NewScrapingError(class) ==
    [class |-> class, file |-> "ScrapingError.ts", made |-> "constructor",
     kind |-> IF class = "ParseError" THEN "parse" ELSE "authentication",
     type |-> IF class = "ParseError" THEN "parse" ELSE "authentication",
     retryable |-> FALSE]

\* every error object the wrapped operation may throw
ThrownErrors ==
    {NewNetworkError(f, "constructor", k) : f \in ErrorFiles, k \in {"timeout", "rateLimit", "connection", "unknown"}}
      \cup {NewNetworkError("ScrapingError.ts", "constructor", "request")}
      \cup UNION {{NewNetworkError(f, made, FactoryKind(made)) : made \in Factories(f)} : f \in ErrorFiles}
      \cup {NewScrapingError("AuthenticationError"), NewScrapingError("ParseError")}

Wrappers == {"withRetry", "processMessage"}

MAX_RETRIES == 3    \* private readonly MAX_RETRIES = 3, in both services

\* what the wrapper throws after the last attempt: withRetry rethrows the
\* error, processMessage throws the plain Error its handleError builds
Surfaced(w, e) == IF w = "withRetry" THEN e.class ELSE "Error"

\* the object the wrapper throws after the last attempt: withRetry's
\* throw error is the caught object, handleError(error) is a new Error
ThrownObject(w, e) == IF w = "withRetry" THEN e ELSE [NoError EXCEPT !.class = "Error"]

\* the attempt counts a wrapper runs with: withRetry's retries parameter
\* (default this.MAX_RETRIES, the only value its caller uses),
\* processMessage's this.MAX_RETRIES
RetryCounts(w) == IF w = "withRetry" THEN 1..MAX_RETRIES ELSE {MAX_RETRIES}

BackoffDelay_Constant(attempt) == 1000

\* setTimeout(resolve, 1000 * attempt) / this.delay(1000 * retryCount)
BackoffDelay(attempt) == 1000 * attempt

NoRetry == [wrapper |-> "none", state |-> "idle", attempt |-> 0, invocations |-> 0,
            error |-> NoError, surfaced |-> "none", limit |-> 0, delay |-> 0,
            thrown |-> NoError]

\* the wrapper is called: the first pass of the loop invokes the operation
RetryStart(w, n) ==
    /\ retry.state \in {"idle", "returned", "thrown"}
    /\ n \in RetryCounts(w)
    /\ retry' = [NoRetry EXCEPT !.wrapper = w, !.state = "invoked", !.attempt = 1,
                                !.invocations = 1, !.limit = n]
    /\ UNCHANGED <<page, ext, sizes, calls, login>>
    /\ UNCHANGED <<cacheVars, mergeVars, aggVars, svcVars>>

\* the operation resolves: return await operation()
OperationResolves ==
    /\ retry.state = "invoked"
    /\ retry' = [retry EXCEPT !.state = "returned"]
    /\ UNCHANGED <<page, ext, sizes, calls, login>>
    /\ UNCHANGED <<cacheVars, mergeVars, aggVars, svcVars>>

\* the operation rejects with e: the catch block throws on the last attempt
\* and otherwise starts the delay, whatever e is
OperationRejects(e) ==
    /\ retry.state = "invoked"
    /\ retry' = IF retry.attempt = retry.limit
                THEN [retry EXCEPT !.state = "thrown", !.error = e,
                                   !.surfaced = Surfaced(retry.wrapper, e),
                                   !.thrown = ThrownObject(retry.wrapper, e)]
                ELSE [retry EXCEPT !.state = "backoff", !.error = e,
                                   !.delay = BackoffDelay(retry.attempt)]
    /\ UNCHANGED <<page, ext, sizes, calls, login>>
    /\ UNCHANGED <<cacheVars, mergeVars, aggVars, svcVars>>

\* the delay ends: the next pass of the loop invokes the operation again
BackoffEnds ==
    /\ retry.state = "backoff"
    /\ retry' = [retry EXCEPT !.state = "invoked", !.attempt = @ + 1,
                              !.invocations = @ + 1, !.delay = 0]
    /\ UNCHANGED <<page, ext, sizes, calls, login>>
    /\ UNCHANGED <<cacheVars, mergeVars, aggVars, svcVars>>

(***************************************************************************)
(* Record extraction: AdaptiveParser.parseCourseList / parseNotices /      *)
(* parseAssignments, YonseiPortal.parseCourseList,                         *)
(* ContentExplorer.fetchCourses                                            *)
(* A document is the sequence of its blocks, each with its class and the   *)
(* value of its id attribute ("" when the attribute is absent or empty),   *)
(* and the record kinds it has a list container for.                       *)
(***************************************************************************)
BlockClasses == {"course-item", "notice-item", "assignment-item", "other"}

AttrValues == {"", "a", "b"}

Blocks == [class : BlockClasses, id : AttrValues]

ContainerKinds == {"notice", "assignment"}

EmptyPage == [blocks |-> <<>>, containers |-> {}]

ExtractionPaths ==
    {"AdaptiveParser.parseCourseList", "AdaptiveParser.parseNotices",
     "AdaptiveParser.parseAssignments", "YonseiPortal.parseCourseList",
     "ContentExplorer.fetchCourses"}

\* the selector of each path: $('.course-item'), $('.notice-item'), $('.assignment-item')
ItemClass(path) ==
    IF path = "AdaptiveParser.parseNotices" THEN "notice-item"
    ELSE IF path = "AdaptiveParser.parseAssignments" THEN "assignment-item"
    ELSE "course-item"

\* the prefix of the generated id: course_, notice_, assignment_
Namespace(path) ==
    IF path = "AdaptiveParser.parseNotices" THEN "notice"
    ELSE IF path = "AdaptiveParser.parseAssignments" THEN "assignment"
    ELSE "course"

\* the elements the selector matches, in document order
Matched(doc, path) == SelectSeq(doc.blocks, LAMBDA b : b.class = ItemClass(path))

\* `${namespace}_${Date.now()}_${index}`
SyntheticId(namespace, t, index) == namespace \o "_" \o ToString(t) \o "_" \o ToString(index)

\* Date.now() when the callback runs for the element of the given index: the
\* clock stands still during the call or moves on between two elements
ClockAt(start, ticking, index) == IF ticking THEN start + index ELSE start

\* id: $element.attr(...) || `${namespace}_${Date.now()}_${_}` (AdaptiveParser)
AdaptiveParserIds(path, items, start, ticking) ==
    [i \in 1..Len(items) |->
        IF items[i].id # "" THEN items[i].id
        ELSE SyntheticId(Namespace(path), ClockAt(start, ticking, i - 1), i - 1)]

\* id: $course.attr('data-course-id') || ''   (YonseiPortal, ContentExplorer)
AttributeIds(items) == [i \in 1..Len(items) |-> items[i].id]

ExtractedIds(path, items, start, ticking) ==
    IF path \in {"YonseiPortal.parseCourseList", "ContentExplorer.fetchCourses"}
    THEN AttributeIds(items)
    ELSE AdaptiveParserIds(path, items, start, ticking)

NoExt == [path |-> "none", doc |-> EmptyPage,
          status |-> "none", error |-> "none", attrs |-> <<>>, ids |-> <<>>]

\* the site's page gets one more block
AddBlock(b) ==
    /\ Len(page.blocks) < MaxBlocks
    /\ page' = [page EXCEPT !.blocks = Append(@, b)]
    /\ UNCHANGED <<retry, ext, sizes, calls, login>>
    /\ UNCHANGED <<cacheVars, mergeVars, aggVars, svcVars>>

\* the site's page gets the list container of a record kind
AddContainer(k) ==
    /\ k \notin page.containers
    /\ page' = [page EXCEPT !.containers = @ \cup {k}]
    /\ UNCHANGED <<retry, ext, sizes, calls, login>>
    /\ UNCHANGED <<cacheVars, mergeVars, aggVars, svcVars>>

\* one extraction call on the page; fetchCourses first fetches it and rethrows
\* the NetworkError of fetchPage
Extract(path, ticking, r) ==
    /\ r \in {"ok", "NetworkError"}
    /\ r = "NetworkError" => path = "ContentExplorer.fetchCourses"
    /\ LET items == Matched(page, path)
       IN  ext' = IF r = "NetworkError"
                  THEN [NoExt EXCEPT !.path = path, !.doc = page, !.status = "error",
                                     !.error = "NetworkError"]
                  ELSE [NoExt EXCEPT !.path = path, !.doc = page, !.status = "ok",
                                     !.attrs = AttributeIds(items),
                                     !.ids = ExtractedIds(path, items, now, ticking)]
    /\ UNCHANGED <<retry, page, sizes, calls, login>>
    /\ UNCHANGED <<cacheVars, mergeVars, aggVars, svcVars>>

(***************************************************************************)
(* File-size text: AdaptiveParser.parseFileSize and parseFileSizeToBytes   *)
(* (utils/typeGuards), as called by the two parseAttachments.  A text is   *)
(* the sequence of its characters.                                         *)
(***************************************************************************)
SizeTexts ==
    {<<"5", "1", "2", "K", "B">>, <<"3", ".", "2", "M", "B">>, <<"b", "o", "g", "u", "s">>,
     <<>>, <<"1", ".", "5", "B">>, <<"1", "0">>, <<"2", " ", "k", "b">>, <<"1", "T", "B">>,
     <<"1", "G", "B">>, <<".">>, <<" ", "5", "1", "2", "K", "B", " ">>, <<"K", "B">>,
     <<"5", "K", "B", "s">>}

Digits == {"0", "1", "2", "3", "4", "5", "6", "7", "8", "9"}

DigitValue(c) == CHOOSE n \in 0..9 : ToString(n) = c

\* String.prototype.trim
RECURSIVE Trim(_)
Trim(s) ==
    IF s = <<>> THEN s
    ELSE IF Head(s) = " " THEN Trim(Tail(s))
    ELSE IF s[Len(s)] = " " THEN Trim(SubSeq(s, 1, Len(s) - 1))
    ELSE s

\* the length of the longest prefix of s made of characters of the set
RECURSIVE PrefixLen(_, _)
PrefixLen(s, chars) ==
    IF s = <<>> \/ Head(s) \notin chars THEN 0 ELSE 1 + PrefixLen(Tail(s), chars)

Drop(s, n) == SubSeq(s, n + 1, Len(s))

\* the i flag of both patterns, on the letters of the units
UpperCase(c) ==
    IF c = "k" THEN "K" ELSE IF c = "m" THEN "M" ELSE IF c = "g" THEN "G"
    ELSE IF c = "t" THEN "T" ELSE IF c = "b" THEN "B" ELSE c

\* the groups of /^([\d.]+)\s*(unit)$/i on s: the number text and what follows
\* the white space, in upper case
SizeGroups(s) ==
    LET n == PrefixLen(s, Digits \cup {"."})
        rest == Drop(s, n)
        unit == Drop(rest, PrefixLen(rest, {" "}))
    IN  [number |-> SubSeq(s, 1, n), unit |-> [i \in 1..Len(unit) |-> UpperCase(unit[i])]]

RECURSIVE DigitsValue(_)
DigitsValue(s) == IF s = <<>> THEN 0 ELSE 10 * DigitsValue(SubSeq(s, 1, Len(s) - 1)) + DigitValue(s[Len(s)])

RECURSIVE Pow10(_)
Pow10(n) == IF n = 0 THEN 1 ELSE 10 * Pow10(n - 1)

\* parseFloat on a text of digits and dots: the digits, one dot and the digits
\* after it; NaN when there is no digit; the value is mant / scale
parseFloat(s) ==
    LET n == PrefixLen(s, Digits)
        int == SubSeq(s, 1, n)
        after == Drop(s, n)
        frac == IF after # <<>> /\ Head(after) = "."
                THEN SubSeq(after, 2, 1 + PrefixLen(Tail(after), Digits))
                ELSE <<>>
    IN  [nan |-> int = <<>> /\ frac = <<>>,
         mant |-> DigitsValue(int \o frac),
         scale |-> Pow10(Len(frac))]

\* const multipliers / const units = { B: 1, KB: 1024, MB: 1024 * 1024, GB: 1024 * 1024 * 1024 }
units ==
    (<<"B">> :> 1) @@ (<<"K", "B">> :> 1024) @@ (<<"M", "B">> :> 1024 * 1024)
      @@ (<<"G", "B">> :> 1024 * 1024 * 1024)

NumberSize(n) == [kind |-> "number", value |-> n]

UndefinedSize == [kind |-> "undefined", value |-> 0]

NaNSize == [kind |-> "NaN", value |-> 0]

\* Math.round and Math.floor of the non-negative quotient a / b
MathRound(a, b) == (a \div b) + (IF 2 * (a % b) >= b THEN 1 ELSE 0)

MathFloor(a, b) == a \div b

\* AdaptiveParser.parseFileSize: /^([\d.]+)\s*(KB|MB|GB|B)?$/i, unit = 'B' by default
parseFileSize(sizeString) ==
    LET g == SizeGroups(sizeString)
        unit == IF g.unit = <<>> THEN <<"B">> ELSE g.unit
        f == parseFloat(g.number)
    IN  IF g.number = <<>> \/ unit \notin DOMAIN units THEN NumberSize(0)
        ELSE IF f.nan THEN NaNSize
        ELSE NumberSize(MathRound(f.mant * units[unit], f.scale))

\* parseFileSizeToBytes: /^([\d.]+)\s*([KMGT]?B)$/i
parseFileSizeToBytes(sizeStr) ==
    LET g == SizeGroups(sizeStr)
        f == parseFloat(g.number)
    IN  IF sizeStr = <<>> THEN UndefinedSize
        ELSE IF g.number = <<>> \/ g.unit \notin (DOMAIN units \cup {<<"T", "B">>})
        THEN UndefinedSize
        ELSE IF f.nan \/ g.unit \notin DOMAIN units THEN UndefinedSize
        ELSE NumberSize(MathFloor(f.mant * units[g.unit], f.scale))

SizePaths == {"AdaptiveParser.parseAttachments", "ContentExplorer.parseAttachments"}

NoSizes == [p \in SizePaths |-> [text |-> <<>>, size |-> NumberSize(0), parsed |-> FALSE]]

\* size: this.parseFileSize($attachment.find('.attachment-size').text().trim())
AdaptiveParserAttachmentSize(text) ==
    /\ sizes' = [sizes EXCEPT !["AdaptiveParser.parseAttachments"] =
                    [text |-> text, size |-> parseFileSize(Trim(text)), parsed |-> TRUE]]
    /\ UNCHANGED <<retry, page, ext, calls, login>>
    /\ UNCHANGED <<cacheVars, mergeVars, aggVars, svcVars>>

\* const sizeText = ....text().trim(); size: parseFileSizeToBytes(sizeText)
ContentExplorerAttachmentSize(text) ==
    /\ sizes' = [sizes EXCEPT !["ContentExplorer.parseAttachments"] =
                    [text |-> text, size |-> parseFileSizeToBytes(Trim(text)), parsed |-> TRUE]]
    /\ UNCHANGED <<retry, page, ext, calls, login>>
    /\ UNCHANGED <<cacheVars, mergeVars, aggVars, svcVars>>

(***************************************************************************)
(* Overlapping calls of UniversalScraper.getAllCourses: each call runs the *)
(* code of getAllCourses on its own options and promises; the cache, the   *)
(* sessions and the clock are shared.                                      *)
(***************************************************************************)
CallIds == {1, 2}

NoCall == [pc |-> "none", opts |-> [useCache |-> FALSE, forceRefresh |-> FALSE],
           cold |-> FALSE, overlapped |-> FALSE,
           pending |-> [p \in CoursePlatforms |-> NotCalled], outcome |-> NoOutcome]

NoCalls == [c \in CallIds |-> NoCall]

\* call c of getAllCourses(options), from the call to its first suspension (or
\* to its end); the calls are numbered in the order they are made; cold: it
\* read the cache and missed; overlapped: another call was suspended at some
\* moment while this one was
CallStart(c, useCache, forceRefresh) ==
    /\ calls[c].pc = "none"
    /\ \A d \in CallIds : d < c => calls[d].pc # "none"
    /\ LET read == useCache /\ ~forceRefresh
           r == CacheGetResult(cacheImpl, cache, AllCoursesKey, now)
           started == [NoCall EXCEPT !.opts = [useCache |-> useCache, forceRefresh |-> forceRefresh]]
           waiting == {d \in CallIds \ {c} : calls[d].pc = "waiting"}
       IN  /\ cache' = IF read THEN CacheGetStore(cacheImpl, cache, AllCoursesKey, now) ELSE cache
           /\ calls' =
                IF read /\ r.hit
                THEN [calls EXCEPT ![c] =
                        [started EXCEPT !.pc = "done",
                                        !.outcome = [status |-> "ok", error |-> "none", causes |-> {},
                                                     value |-> CachedValue(cacheImpl, r.data)]]]
                ELSE IF \E p \in CoursePlatforms : ~auth[p]
                THEN [calls EXCEPT ![c] =
                        [started EXCEPT !.pc = "done", !.cold = read,
                                        !.pending = [p \in CoursePlatforms |-> GetCoursesStart(p, auth)],
                                        !.outcome = Raised("AuthenticationError",
                                                           {FirstUnauthenticated(auth)})]]
                ELSE [d \in CallIds |->
                        IF d = c
                        THEN [started EXCEPT !.pc = "waiting", !.cold = read,
                                             !.overlapped = (waiting # {}),
                                             !.pending = [p \in CoursePlatforms |-> GetCoursesStart(p, auth)]]
                        ELSE IF d \in waiting THEN [calls[d] EXCEPT !.overlapped = TRUE]
                        ELSE calls[d]]
    /\ UNCHANGED <<retry, page, ext, sizes, login>>
    /\ UNCHANGED <<cacheImpl, now, timerActive, nextSweep, lastOp, mergeVars, aggVars, svcVars>>

\* a platform answers call c with a page the parser accepts
CallRespondOk(c, p, list) ==
    /\ calls[c].pending[p].state = "inflight"
    /\ list \in CoursePages(p)
    /\ LET pending1 == [calls[c].pending EXCEPT ![p] = Fulfilled(list)]
           l == pending1["learnus"]
           pr == pending1["portal"]
       IN  IF calls[c].pc = "waiting" /\ \A q \in CoursePlatforms : pending1[q].state = "fulfilled"
           THEN IF ~l.success /\ ~pr.success
                THEN /\ calls' = [calls EXCEPT ![c].pending = pending1, ![c].pc = "done",
                                               ![c].outcome = Raised("Error", {})]
                     /\ UNCHANGED cache
                ELSE /\ calls' = [calls EXCEPT ![c].pending = pending1, ![c].pc = "done",
                                               ![c].outcome = [status |-> "ok", error |-> "none",
                                                               causes |-> {},
                                                               value |-> AllCoursesResult(l, pr)]]
                     /\ cache' = IF calls[c].opts.useCache
                                 THEN CacheSet(cacheImpl, cache, AllCoursesKey,
                                               AllCoursesResult(l, pr), defaultExpiryMinutes, now)
                                 ELSE cache
           ELSE /\ calls' = [calls EXCEPT ![c].pending = pending1]
                /\ UNCHANGED cache
    /\ UNCHANGED <<retry, page, ext, sizes, login>>
    /\ UNCHANGED <<cacheImpl, now, timerActive, nextSweep, lastOp, mergeVars, aggVars, svcVars>>

\* a platform's request of call c fails, or its page does not parse
CallRespondFail(c, p, e) ==
    /\ calls[c].pending[p].state = "inflight"
    /\ e \in {"NetworkError", "ParseError"}
    /\ calls' = IF calls[c].pc = "waiting"
                THEN [calls EXCEPT ![c].pending[p] = Rejected(e), ![c].pc = "done",
                                   ![c].outcome = Raised(e, {p})]
                ELSE [calls EXCEPT ![c].pending[p] = Rejected(e)]
    /\ UNCHANGED <<retry, page, ext, sizes, login>>
    /\ UNCHANGED <<cacheVars, mergeVars, aggVars, svcVars>>

(***************************************************************************)
(* Overlapping authenticate and logout calls on one session (part_003      *)
(* LearnUs; part_004 and part_002 have the same text). A call is suspended  *)
(* at each await; isAuthenticated is written when a response is processed.  *)
(***************************************************************************)
LoginSlots == 1..MaxCalls

OneSession == "learnus"

\* no call in flight, the flag never written
NoLogin == [at |-> [c \in LoginSlots |-> "idle"],
            lastWrite |-> [by |-> "none", marker |-> FALSE],
            lastBegun |-> "none", overlapped |-> FALSE]

InFlightCalls == {c \in LoginSlots : login.at[c] # "idle"}

\* authenticate() up to await this.axiosInstance.get('/login')
AuthenticateBegins(c) ==
    /\ login.at[c] = "idle"
    /\ login' = [login EXCEPT !.at[c] = "loginPage", !.lastBegun = "authenticate",
                              !.overlapped = (InFlightCalls # {})]
    /\ UNCHANGED <<auth, pc, opts, pending, fetches, outcome, callSeq, storedAt, sessOp>>
    /\ UNCHANGED <<retry, page, ext, sizes, calls>>
    /\ UNCHANGED <<cacheVars, mergeVars, svcVars>>

\* the login page arrives and the POST is sent, or the GET fails and the
\* catch block throws AuthenticationError
LoginPageArrives(c, ok) ==
    /\ login.at[c] = "loginPage"
    /\ login' = [login EXCEPT !.at[c] = IF ok THEN "loginPost" ELSE "idle"]
    /\ UNCHANGED <<auth, pc, opts, pending, fetches, outcome, callSeq, storedAt, sessOp>>
    /\ UNCHANGED <<retry, page, ext, sizes, calls>>
    /\ UNCHANGED <<cacheVars, mergeVars, svcVars>>

\* the POST is answered: this.isAuthenticated = response.data.includes(marker),
\* or the POST fails and the catch block throws without a write
LoginAnswerArrives(c, r) ==
    /\ login.at[c] = "loginPost"
    /\ r \in {"marker", "nomarker", "postFailure"}
    /\ auth' = [auth EXCEPT ![OneSession] = AuthenticateFlag(@, r)]
    /\ login' = [login EXCEPT !.at[c] = "idle",
                              !.lastWrite = IF r \in LoginFailures THEN @
                                            ELSE [by |-> "authenticate", marker |-> (r = "marker")]]
    /\ UNCHANGED <<pc, opts, pending, fetches, outcome, callSeq, storedAt, sessOp>>
    /\ UNCHANGED <<retry, page, ext, sizes, calls>>
    /\ UNCHANGED <<cacheVars, mergeVars, svcVars>>

\* logout() up to await this.axiosInstance.get('/login/logout.php')
LogoutBegins(c) ==
    /\ login.at[c] = "idle"
    /\ login' = [login EXCEPT !.at[c] = "logout", !.lastBegun = "logout",
                              !.overlapped = (InFlightCalls # {})]
    /\ UNCHANGED <<auth, pc, opts, pending, fetches, outcome, callSeq, storedAt, sessOp>>
    /\ UNCHANGED <<retry, page, ext, sizes, calls>>
    /\ UNCHANGED <<cacheVars, mergeVars, svcVars>>

\* the logout request is answered or fails: the flag is cleared in the try
\* block or in the catch block
LogoutAnswerArrives(c, r) ==
    /\ login.at[c] = "logout"
    /\ r \in {"ok", "NetworkError"}
    /\ auth' = [auth EXCEPT ![OneSession] = LogoutFlag(@, r)]
    /\ login' = [login EXCEPT !.at[c] = "idle",
                              !.lastWrite = [by |-> "logout", marker |-> FALSE]]
    /\ UNCHANGED <<pc, opts, pending, fetches, outcome, callSeq, storedAt, sessOp>>
    /\ UNCHANGED <<retry, page, ext, sizes, calls>>
    /\ UNCHANGED <<cacheVars, mergeVars, svcVars>>

(***************************************************************************)
(* Specifications                                                          *)
(***************************************************************************)
\* the state after construction: an empty cache with its timer running, no
\* course lists yet, and three unauthenticated sessions with no call made
InitWith(impls) ==
    /\ cacheImpl \in impls
    /\ cache = <<>>
    /\ now = 0
    /\ timerActive = TRUE
    /\ nextSweep = cleanupIntervalMinutes * MinuteMs
    /\ lastOp = NoOp
    /\ courses1 = <<>>
    /\ courses2 = <<>>
    /\ merged = <<>>
    /\ mergedRev = <<>>
    /\ auth = [p \in Platforms |-> FALSE]
    /\ pc = "idle"
    /\ opts = [useCache |-> FALSE, forceRefresh |-> FALSE]
    /\ pending = [p \in CoursePlatforms |-> NotCalled]
    /\ fetches = [p \in CoursePlatforms |-> 0]
    /\ outcome = NoOutcome
    /\ callSeq = 0
    /\ storedAt = {}
    /\ sessOp = NoSessOp
    /\ svc = NoSvc
    /\ retry = NoRetry
    /\ page = EmptyPage
    /\ ext = NoExt
    /\ sizes = NoSizes
    /\ calls = NoCalls
    /\ login = NoLogin

Init == InitWith(Impls)

\* the cache takes no part in the merge and session specifications: they start
\* with one CacheManager variant
InitOneCache == InitWith({"part_001"})

CacheNext ==
    \/ \E k \in Keys, v \in Values, t \in Ttls \cup {NoTtl} : Set(k, v, t)
    \/ \E k \in Keys : Get(k)
    \/ \E k \in Keys : Has(k)
    \/ \E k \in Keys : Delete(k)
    \/ Clear
    \/ Cleanup
    \/ Destroy
    \/ Advance

CacheSpec == Init /\ [][CacheNext]_vars

StatsNext ==
    \/ \E k \in Keys, v \in Values, t \in Ttls \cup {NoTtl} : Set(k, v, t)
    \/ \E k \in Keys : Get(k)
    \/ GetStats
    \/ Advance

StatsSpec == InitOneCache /\ [][StatsNext]_vars

MergeNext ==
    \/ \E c \in CourseInfo : AddCourse1(c)
    \/ \E c \in CourseInfo : AddCourse2(c)

MergeSpec == InitOneCache /\ [][MergeNext]_vars

SessionNext ==
    \/ \E p \in Platforms, r \in LoginResponses : AuthenticateCall(p, r)
    \/ \E p \in Platforms, r \in {"ok", "NetworkError"} : LogoutCall(p, r)
    \/ \E p \in Platforms : \E op \in SessionOps(p), r \in Responses : DataOp(p, op, r)

SessionSpec == InitOneCache /\ [][SessionNext]_vars

InitializeNext ==
    \/ \E concurrent \in BOOLEAN, r \in [Platforms -> LoginResponses] : Initialize(concurrent, r)
    \/ \E p \in Platforms, r \in {"ok", "NetworkError"} : LogoutCall(p, r)

InitializeSpec == InitOneCache /\ [][InitializeNext]_vars

LoginNext ==
    \/ \E c \in LoginSlots : AuthenticateBegins(c)
    \/ \E c \in LoginSlots, ok \in BOOLEAN : LoginPageArrives(c, ok)
    \/ \E c \in LoginSlots, r \in {"marker", "nomarker", "postFailure"} : LoginAnswerArrives(c, r)
    \/ \E c \in LoginSlots : LogoutBegins(c)
    \/ \E c \in LoginSlots, r \in {"ok", "NetworkError"} : LogoutAnswerArrives(c, r)

LoginSpec == InitOneCache /\ [][LoginNext]_vars

ServiceNext ==
    \/ \E p \in CoursePlatforms, r \in LoginResponses : Authenticate(p, r)
    \/ \E p \in CoursePlatforms : Logout(p)
    \/ \E q \in Requests, r \in Responses : ScrapeByCategory(q[1], q[2], q[3], r)
    \/ \E q \in DirectRequests, r \in Responses : GetScrapeData(q[1], q[2], q[3], r)

ServiceSpec == Init /\ [][ServiceNext]_vars

\* the operations whose errors reach the aggregator's callers: a session data
\* operation called directly and UniversalScraper.getCourseDetails
DetailsNext ==
    \/ \E p \in CoursePlatforms, r \in LoginResponses : Authenticate(p, r)
    \/ \E p \in CoursePlatforms : Logout(p)
    \/ \E q \in DirectRequests, r \in Responses : GetScrapeData(q[1], q[2], q[3], r)
    \/ \E useCache \in BOOLEAN, forceRefresh \in BOOLEAN, rl \in Responses, rp \in Responses :
          GetCourseDetails(useCache, forceRefresh, rl, rp)

DetailsSpec == Init /\ [][DetailsNext]_vars

AssignmentsNext ==
    \/ \E p \in CoursePlatforms, r \in LoginResponses : Authenticate(p, r)
    \/ \E p \in CoursePlatforms : Logout(p)
    \/ \E useCache \in BOOLEAN, forceRefresh \in BOOLEAN :
          \E rl \in Responses, rp \in Responses, ra \in Responses :
             GetAssignments(useCache, forceRefresh, rl, rp, ra)

AssignmentsSpec == Init /\ [][AssignmentsNext]_vars

RetryNext ==
    \/ \E w \in Wrappers, n \in 1..MAX_RETRIES : RetryStart(w, n)
    \/ OperationResolves
    \/ \E e \in ThrownErrors : OperationRejects(e)
    \/ BackoffEnds

RetrySpec == InitOneCache /\ [][RetryNext]_vars

\* the operation's promise settles and the delay timer fires
RetryFairSpec ==
    /\ InitOneCache
    /\ [][RetryNext]_vars
    /\ WF_vars(OperationResolves \/ \E e \in ThrownErrors : OperationRejects(e))
    /\ WF_vars(BackoffEnds)

ExtractNext ==
    \/ \E b \in Blocks : AddBlock(b)
    \/ \E k \in ContainerKinds : AddContainer(k)
    \/ \E path \in ExtractionPaths, ticking \in BOOLEAN, r \in {"ok", "NetworkError"} :
          Extract(path, ticking, r)

ExtractSpec == InitOneCache /\ [][ExtractNext]_vars

SizeNext ==
    \/ \E text \in SizeTexts : AdaptiveParserAttachmentSize(text)
    \/ \E text \in SizeTexts : ContentExplorerAttachmentSize(text)

SizeSpec == InitOneCache /\ [][SizeNext]_vars

\* two calls that read the cache before fetching (forceRefresh unset), with
\* or without useCache
ConcurrentNext ==
    \/ \E p \in CoursePlatforms : Authenticate(p, "marker")
    \/ \E p \in CoursePlatforms : Logout(p)
    \/ \E c \in CallIds, u \in BOOLEAN : CallStart(c, u, FALSE)
    \/ \E c \in CallIds, p \in CoursePlatforms : \E list \in CoursePages(p) : CallRespondOk(c, p, list)
    \/ \E c \in CallIds, p \in CoursePlatforms : CallRespondFail(c, p, "NetworkError")
    \/ Tick
    \/ Sweep

ConcurrentSpec == Init /\ [][ConcurrentNext]_vars

Next ==
    \/ \E p \in CoursePlatforms, r \in LoginResponses : Authenticate(p, r)
    \/ \E p \in CoursePlatforms : Logout(p)
    \/ \E u \in BOOLEAN, f \in BOOLEAN : StartCall(u, f)
    \/ \E p \in CoursePlatforms : \E list \in CoursePages(p) : RespondOk(p, list)
    \/ \E p \in CoursePlatforms, e \in {"NetworkError", "ParseError"} : RespondFail(p, e)
    \/ Tick
    \/ Sweep

Spec == Init /\ [][Next]_vars

(***************************************************************************)
(* Properties                                                              *)
(***************************************************************************)
NoRepeats(s) == \A i, j \in 1..Len(s) : i # j => s[i] # s[j]

Ids(list) == {list[i].id : i \in 1..Len(list)}

\* C1: partial-failure tolerance: when at least one platform call of an
\* aggregated fetch succeeded and the others failed, the call does not raise
\* and returns the successful platforms' records with per-platform flags.
C1_PartialFailureTolerated ==
    (/\ pc = "idle"
     /\ \E p \in CoursePlatforms : pending[p].state = "fulfilled"
     /\ \E p \in CoursePlatforms : pending[p].state = "rejected")
    => (/\ outcome.status = "ok"
        /\ outcome.value.platforms =
             [learnus |-> pending["learnus"].state = "fulfilled",
              portal |-> pending["portal"].state = "fulfilled"])

\* C2: total failure: when every resolved platform call failed, the error
\* raised by the aggregated fetch enumerates one cause per failed platform.
C2_TotalFailureListsCauses ==
    (/\ outcome.status = "error"
     /\ \A p \in CoursePlatforms : pending[p].state = "rejected")
    => outcome.causes = CoursePlatforms

\* C3: authentication gate: a data operation called on a session whose flag
\* is false fails with AuthenticationError and issues no network request.
C3_AuthenticationGate ==
    (sessOp.op \in DataOps /\ ~sessOp.authenticated)
    => (sessOp.result = "AuthenticationError" /\ ~sessOp.requestIssued)

\* C4: get never returns a value whose expiry time is earlier than the
\* current time (the expiry being that of the set that wrote the value).
C4_NeverReturnedPastExpiry ==
    (lastOp.op = "get" /\ lastOp.hit) => lastOp.due >= now

\* C5: set(k, v, t) followed immediately by get(k) returns v, and get(k) once
\* the clock is more than t past the latest set of k returns a miss.
C5_SetThenGet ==
    [][lastOp'.op = "get" =>
         /\ (lastOp.op = "set" /\ lastOp.key = lastOp'.key)
              => (lastOp'.hit /\ lastOp'.data = lastOp.data)
         /\ (MapHas(cache, lastOp'.key) /\ now > MapGet(cache, lastOp'.key).due)
              => ~lastOp'.hit]_vars

\* C6: the number of entries never exceeds maxSize, and a set performed at
\* capacity evicts exactly one entry before inserting.
C6_SizeBounded ==
    [][/\ Len(cache') <= maxSize
       /\ (lastOp'.op = "set" /\ Len(cache) >= maxSize)
            => Len(cache') \in {Len(cache) - 1, Len(cache)}]_vars

\* C7: fill-in merge: for two records with equal id, every field that is
\* non-empty in at least one input is non-empty in the merged record.
C7_FillInMerge ==
    (/\ Len(courses1) = 1 /\ Len(courses2) = 1
     /\ courses1[1].id = courses2[1].id)
    => LET a == courses1[1]
           b == courses2[1]
           m == merged[1]
       IN  /\ Len(merged) = 1
           /\ (a.name # "" \/ b.name # "") => m.name # ""
           /\ (a.description # "" \/ b.description # "") => m.description # ""
           /\ (a.schedule # <<>> \/ b.schedule # <<>>) => m.schedule # <<>>

\* C8 (as claimed): merging a record with itself yields exactly that record,
\* schedule included.
C8_MergeIdempotent ==
    (Len(courses1) = 1 /\ courses2 = courses1)
    => merged = courses1

\* C8 (amended): merging a record with itself keeps id, name and description,
\* and yields the record's schedule reduced to its distinct slots; the result
\* is exactly the record whenever its schedule has no repeated slot.
C8_MergeIdempotentUpToRepeats ==
    (Len(courses1) = 1 /\ courses2 = courses1)
    => LET a == courses1[1]
           m == merged[1]
       IN  /\ Len(merged) = 1
           /\ m.id = a.id /\ m.name = a.name /\ m.description = a.description
           /\ Range(m.schedule) = Range(a.schedule)
           /\ NoRepeats(m.schedule)
           /\ NoRepeats(a.schedule) => m = a

C8_Witness ==
    /\ Len(courses1) = 1 /\ courses2 = courses1
    /\ courses1[1].schedule = <<"Mon", "Mon">>
    /\ merged[1].schedule = <<"Mon">>

C10_ColdFetchThenCacheHit ==
    [][/\ (/\ pc = "waiting" /\ pc' = "idle" /\ outcome'.status = "ok"
           /\ opts.useCache /\ ~opts.forceRefresh)
          => /\ \A p \in CoursePlatforms : fetches'[p] = 1
             /\ MapHas(cache', AllCoursesKey)
             /\ MapGet(cache', AllCoursesKey).data = outcome'.value
       /\ (/\ callSeq' # callSeq /\ opts'.useCache /\ ~opts'.forceRefresh
           /\ \E t \in storedAt : now < t + defaultExpiryMinutes * MinuteMs)
          => /\ \A p \in CoursePlatforms : fetches'[p] = 0
             /\ outcome'.status = "ok"]_vars

C10_Witness ==
    /\ pc = "idle" /\ outcome.status = "ok"
    /\ opts.useCache /\ ~opts.forceRefresh
    /\ \A p \in CoursePlatforms : fetches[p] = 0
    /\ \E t \in storedAt : now > t

\* C11: a session that receives an authentication-required response to a
\* data call is unauthenticated afterwards, as it is after logout, and its
\* gated data operations then fail with AuthenticationError.
C11_AuthRequiredResets ==
    /\ (sessOp.op \in DataOps /\ sessOp.requestIssued /\ sessOp.response = "Unauthorized")
         => ~auth[sessOp.platform]
    /\ sessOp.op = "logout" => ~auth[sessOp.platform]
    /\ (sessOp.op \in DataOps /\ ChecksAuthentication(sessOp.platform, sessOp.op)
          /\ ~sessOp.authenticated)
         => sessOp.result = "AuthenticationError"

\* C12: authenticate returns true exactly when the login POST response holds
\* the logged-in marker, leaves the flag equal to the value returned, and a
\* failure of the GET or of the POST surfaces as AuthenticationError.
C12_AuthenticateOutcome ==
    sessOp.op = "authenticate" =>
      /\ (sessOp.result = "true") = (sessOp.response = "marker")
      /\ sessOp.result \in {"true", "false"}
           => auth[sessOp.platform] = (sessOp.result = "true")
      /\ sessOp.response \in LoginFailures => sessOp.result = "AuthenticationError"
      /\ sessOp.result \in {"true", "false", "AuthenticationError"}

C12_Witness ==
    /\ sessOp.op = "authenticate" /\ sessOp.response = "postFailure"
    /\ sessOp.result = "AuthenticationError"
    /\ sessOp.authenticated /\ auth[sessOp.platform]

\* C13: logout never raises and leaves the session unauthenticated, whether
\* the logout request succeeds or fails and whatever the flag was before.
C13_LogoutAlwaysClears ==
    sessOp.op = "logout" => (sessOp.result = "void" /\ ~auth[sessOp.platform])

C13_Witness ==
    /\ sessOp.op = "logout" /\ sessOp.response = "NetworkError"
    /\ sessOp.authenticated /\ ~auth[sessOp.platform]

PlatformErrors == {"NetworkError", "ParseError", "AuthenticationError"}

\* C14: an AuthenticationError raised by a session during an aggregated fetch
\* reaches the aggregator's caller as an AuthenticationError.
C14_AuthenticationErrorSurfaces ==
    (svc.op = "scrapeByCategory" /\ "AuthenticationError" \in svc.raised)
    => (svc.status = "error" /\ svc.error = "AuthenticationError")

\* C15: a category outside the supported set makes scrapeByCategory, and a
\* session's getScrapeData, raise an error whose type is none of the platform
\* error types.
C15_UnknownCategoryIsConfigurationError ==
    /\ (svc.op = "scrapeByCategory" /\ svc.platforms = {})
         => (svc.status = "error" /\ svc.error \notin PlatformErrors)
    /\ (svc.op = "getScrapeData" /\ svc.authenticated
          /\ svc.category \notin LearnUsCategories)
         => (svc.status = "error" /\ svc.error \notin PlatformErrors)

\* C16: scrapeByCategory resolves every category of the vocabulary to at least
\* one session: course to the course platform only, notice to the course
\* platform and the portal, library and studyroom to the library system only.
C16_VocabularyResolved ==
    (svc.op = "scrapeByCategory" /\ svc.category \in Vocabulary)
    => /\ svc.platforms # {}
       /\ svc.category = "course" => svc.platforms = {"learnus"}
       /\ svc.category = "notice" => svc.platforms = {"learnus", "portal"}
       /\ svc.category \in {"library", "studyroom"} => svc.platforms = {"library"}

\* C17: no request is served a result that was cached for a request with a
\* different category, campus or count.
C17_CacheKeyCoversRequest ==
    (svc.op \in {"scrapeByCategory", "getScrapeData"} /\ svc.hit)
    => svc.data.request = <<svc.category, svc.campus, svc.count>>

\* C18: every successful aggregated fetch leaves, at the moment it returns,
\* an unexpired entry for the request's key in the cache.
C18_SuccessWritesThrough ==
    [][(/\ pc' = "idle" /\ outcome'.status = "ok"
        /\ (pc = "waiting" \/ callSeq' # callSeq))
       => /\ MapHas(cache', AllCoursesKey)
          /\ MapGet(cache', AllCoursesKey).due >= now']_vars

\* C19: fan-out/fan-in: the aggregated call never completes, with a result or
\* with an error, while a platform call it issued is still pending.
C19_WaitsForAllPlatforms ==
    pc = "idle" => \A p \in CoursePlatforms : pending[p].state # "inflight"

\* C20: each run of the background sweep removes every entry whose expiry is
\* in the past and leaves every other entry unchanged.
C20_SweepRemovesExpired ==
    [][lastOp'.op = "cleanup"
       => cache' = SelectSeq(cache, LAMBDA e : ~(e.due < now))]_vars

\* C21: after destroy() the store is empty and the background sweep never
\* runs again.
C21_DestroyStopsSweep ==
    [][/\ lastOp'.op = "destroy" => (cache' = <<>> /\ ~timerActive')
       /\ ~timerActive => (~timerActive' /\ lastOp'.op # "cleanup")]_vars

C21_Witness ==
    /\ ~timerActive
    /\ now >= nextSweep
    /\ \E i \in 1..Len(cache) : cache[i].due < now

\* C22: when set evicts, the evicted entry has the oldest creation timestamp
\* among the entries present: no entry that stays is older than it.
C22_EvictsOldest ==
    [][lastOp'.op = "set"
       => \A e \in Evicted(cache, cache') :
            \A i \in 1..Len(cache) : e[2] <= cache[i].timestamp]_vars

C22_Witness ==
    /\ lastOp.op = "set"
    /\ \E e \in lastOp.evicted :
         \E i \in 1..Len(cache) :
            cache[i].key # lastOp.key /\ e[2] < cache[i].timestamp

\* C23: every error leaving a session data operation or a UniversalScraper
\* operation is an AuthenticationError, a NetworkError or a ParseError; an
\* AuthenticationError or NetworkError raised below leaves unchanged, and any
\* other failure leaves as ParseError.
C23_ErrorsAreTyped ==
    (svc.op \in {"getScrapeData", "getCourseDetails"} /\ svc.status = "error")
    => /\ svc.error \in PlatformErrors
       /\ (svc.raised \cap {"AuthenticationError", "NetworkError"} # {})
            => svc.error \in svc.raised
       /\ (svc.raised \cap {"AuthenticationError", "NetworkError"} = {})
            => svc.error = "ParseError"

\* C24: isRetryable() answers true exactly for the kinds timeout, connection
\* and rateLimit, however the NetworkError was constructed.
C24_RetryableKinds ==
    retry.error.class = "NetworkError"
    => (retry.error.retryable <=> retry.error.kind \in {"timeout", "connection", "rateLimit"})

\* C25: a retry wrapper repeats the operation only after a failure of a
\* retryable kind; after an AuthenticationError or a ParseError the operation
\* is not invoked again and the error is surfaced.
C25_RepeatsOnlyRetryable ==
    /\ retry.state = "backoff"
         => (retry.error.class = "NetworkError"
             /\ retry.error.kind \in {"timeout", "connection", "rateLimit"})
    /\ (retry.invocations > 1 /\ retry.state = "invoked")
         => (retry.error.class = "NetworkError"
             /\ retry.error.kind \in {"timeout", "connection", "rateLimit"})

\* C26: extracting courses from a document with no matching block gives an
\* empty collection and no error; extracting notices or assignments from a
\* document with no container element for that kind raises ParseError.
C26_EmptyVersusMissingContainer ==
    /\ (ext.path = "AdaptiveParser.parseCourseList" /\ Matched(ext.doc, ext.path) = <<>>)
         => (ext.status = "ok" /\ ext.ids = <<>>)
    /\ (\/ ext.path = "AdaptiveParser.parseNotices" /\ "notice" \notin ext.doc.containers
        \/ ext.path = "AdaptiveParser.parseAssignments" /\ "assignment" \notin ext.doc.containers)
         => (ext.status = "error" /\ ext.error = "ParseError")

C28_IdsDistinct ==
    (ext.status = "ok" /\ NoRepeats(SelectSeq(ext.attrs, LAMBDA a : a # "")))
    => NoRepeats(ext.ids)

\* C29: '512KB' gives 524288, '3.2MB' gives 3355443 and 'bogus' gives 0, and
\* a text with no number gives the same value on both extraction paths.
C29_FileSizes ==
    /\ \A p \in SizePaths :
          sizes[p].parsed =>
            /\ sizes[p].text = <<"5", "1", "2", "K", "B">> => sizes[p].size = NumberSize(524288)
            /\ sizes[p].text = <<"3", ".", "2", "M", "B">> => sizes[p].size = NumberSize(3355443)
            /\ sizes[p].text = <<"b", "o", "g", "u", "s">> => sizes[p].size = NumberSize(0)
    /\ \A p, q \in SizePaths :
          (/\ sizes[p].parsed /\ sizes[q].parsed
           /\ PrefixLen(Trim(sizes[p].text), Digits \cup {"."}) = 0
           /\ PrefixLen(Trim(sizes[q].text), Digits \cup {"."}) = 0)
          => sizes[p].size = sizes[q].size

\* C30: two overlapping aggregated fetches that both miss a cold cache both
\* fetch and both return successfully, and when the second completes the
\* cache holds exactly one unexpired entry for the key, which is the result
\* of one of the two calls.
C30_ConcurrentColdFetch ==
    [][(/\ \A c \in CallIds : calls'[c].pc = "done"
        /\ \E c \in CallIds : calls[c].pc = "waiting"
        /\ \A c \in CallIds :
              /\ calls'[c].cold /\ calls'[c].overlapped
              /\ \A p \in CoursePlatforms : calls'[c].pending[p].state = "fulfilled")
       => /\ \A c \in CallIds : calls'[c].outcome.status = "ok"
          /\ Cardinality({i \in 1..Len(cache') : cache'[i].key = AllCoursesKey}) = 1
          /\ MapGet(cache', AllCoursesKey).due >= now'
          /\ MapGet(cache', AllCoursesKey).data
                \in {calls'[c].outcome.value : c \in CallIds}]_vars

C30_Witness ==
    /\ \A c \in CallIds :
          /\ calls[c].pc = "done" /\ calls[c].cold /\ calls[c].overlapped
          /\ calls[c].outcome.status = "ok"
    /\ calls[1].outcome.value # calls[2].outcome.value
    /\ MapHas(cache, AllCoursesKey)
    /\ MapGet(cache, AllCoursesKey).data \in {calls[c].outcome.value : c \in CallIds}

\* C31: an aggregated fetch answers from the cache only when the sessions it
\* reads from are authenticated at the time of the call; otherwise it fails
\* with AuthenticationError.
C31_NoCacheHitUnauthenticated ==
    [][(callSeq' # callSeq /\ pc' = "idle")
       => IF \A p \in CoursePlatforms : auth[p]
          THEN TRUE
          ELSE outcome'.status = "error" /\ outcome'.error = "AuthenticationError"]_vars

\* C32: a getAllCourses call with forceRefresh never answers from the cache: its
\* first step leaves the store unread, calls both sessions (each authenticated
\* one sends its request) and does not return a result; when the platforms have answered and the call succeeds,
\* the entry under the key is the fresh result if useCache is set, and the
\* store is untouched otherwise.
C32_ForceRefreshBypassesCache ==
    [][/\ (callSeq' # callSeq /\ opts'.forceRefresh)
          => /\ cache' = cache
             /\ \A p \in CoursePlatforms : pending'[p] # NotCalled
             /\ \A p \in CoursePlatforms : auth[p] => fetches'[p] = 1
             /\ outcome'.status # "ok"
       /\ (pc = "waiting" /\ pc' = "idle" /\ opts.forceRefresh /\ outcome'.status = "ok")
          => IF opts.useCache
             THEN /\ MapHas(cache', AllCoursesKey)
                  /\ MapGet(cache', AllCoursesKey).data = outcome'.value
                  /\ CacheGetResult(cacheImpl, cache', AllCoursesKey, now).hit
                  /\ Len(SelectSeq(cache', LAMBDA e : e.key = AllCoursesKey)) = 1
             ELSE cache' = cache]_vars

\* a forced call is waiting for the portal while an entry that a read would
\* return is in the store, written by an earlier call
C32_Witness ==
    /\ pc = "waiting"
    /\ opts.forceRefresh /\ opts.useCache
    /\ CacheGetResult(cacheImpl, cache, AllCoursesKey, now).hit
    /\ pending["learnus"].state = "fulfilled"
    /\ pending["portal"].state = "inflight"

\* C33: a withRetry call ends, by returning or by raising; it invokes the
\* operation at most n times, returns at the step the operation first resolves,
\* waits 1000 ms times the number of the failed attempt before the next one,
\* and after the n-th failure raises that failure.
C33_WithRetryTerminates ==
    /\ [](retry.wrapper = "withRetry"
           => /\ retry.invocations = retry.attempt /\ retry.attempt <= retry.limit
              /\ retry.state = "backoff"
                    => (retry.delay = 1000 * retry.attempt /\ retry.attempt < retry.limit)
              /\ retry.state = "thrown"
                    => (retry.invocations = retry.limit /\ retry.error # NoError
                        /\ retry.thrown = retry.error)
              /\ retry.state = "returned" => retry.thrown = NoError)
    /\ [][(retry.wrapper = "withRetry" /\ retry.state = "invoked"
             /\ retry'.state = "returned")
           => (retry'.invocations = retry.invocations /\ retry'.error = retry.error)]_vars
    /\ [][(retry.wrapper = "withRetry" /\ retry.state \in {"returned", "thrown"})
           => retry'.invocations <= 1]_vars
    /\ ((retry.wrapper = "withRetry" /\ retry.state \in {"invoked", "backoff"})
          ~> retry.state \in {"returned", "thrown"})

\* withRetry, called for three attempts, raised after two delays
C33_Witness ==
    /\ retry.wrapper = "withRetry"
    /\ retry.limit = 3
    /\ retry.state = "thrown"
    /\ retry.invocations = 3

\* C34: the result a getAllCourses call returns from the cache has, in its data
\* field, the course list that the result of the call which wrote the entry
\* had in its data field. (The two values are compared in their printed form:
\* one may be a list where the other is a result object.)
C34_HitCarriesStoredPayload ==
    [][(callSeq' # callSeq /\ pc' = "idle" /\ outcome'.status = "ok")
       => ToString(outcome'.value.data)
            = ToString(MapGet(cache, AllCoursesKey).data.data)]_vars

\* C35: in either mode, an initialize() that returns leaves all three sessions
\* authenticated, and an initialize() during which a platform's login is
\* rejected (no logged-in marker in the answer) or fails raises
\* AuthenticationError.
C35_InitializeAuthenticatesAll ==
    [][(sessOp'.op = "initialize" /\ (sessOp' # sessOp \/ auth' # auth))
       => /\ sessOp'.result = "void" => \A p \in Platforms : auth'[p]
          /\ (\E p \in Platforms : sessOp'.response.answers[p] # "marker")
                => sessOp'.result = "AuthenticationError"]_vars

\* C36: whenever no authenticate or logout call is in flight on the session,
\* its flag is true exactly if the last write to it was made by an
\* authenticate call whose login answer contained the logged-in marker.
C36_LastWriteWins ==
    InFlightCalls = {}
    => (auth[OneSession] <=> (login.lastWrite.by = "authenticate" /\ login.lastWrite.marker))

\* a logout was begun last, while an authenticate was in flight; both have
\* completed and the session is authenticated
C36_Witness ==
    /\ InFlightCalls = {}
    /\ login.lastBegun = "logout" /\ login.overlapped
    /\ auth[OneSession]

\* C37: after an authenticate call that raised, the session's flag has the
\* value it had before the call.
C37_FailedAuthenticateKeepsFlag ==
    (sessOp.op = "authenticate" /\ sessOp.result \notin {"true", "false"})
    => auth[sessOp.platform] = sessOp.authenticated

\* the login-page GET of an authenticated library session failed
C37_Witness ==
    /\ sessOp.op = "authenticate" /\ sessOp.platform = "library"
    /\ sessOp.response = "getFailure"
    /\ sessOp.result = "AuthenticationError"
    /\ sessOp.authenticated

\* C38: a getAssignments call that raises leaves the store as it was before
\* the call.
C38_FailedFetchLeavesCache ==
    [][(svc'.op = "getAssignments" /\ svc'.status = "error") => cache' = cache]_vars

\* C39: a set on a key that is present keeps every other key that was
\* present, also when the store holds maxSize entries.
C39_SetKeepsOtherKeys ==
    [][(lastOp'.op = "set" /\ MapHas(cache, lastOp'.key))
       => \A i \in 1..Len(cache) :
            cache[i].key # lastOp'.key => MapHas(cache', cache[i].key)]_vars

\* C40: the counts getStats gives are those of get: validEntries is the number
\* of entries whose key a get at the same instant would hit, expiredEntries
\* the number of entries whose key it would miss.
C40_StatsAgreeWithGet ==
    [][(lastOp'.op = "getStats" /\ now' = now)
       => LET hits == {i \in 1..Len(cache) :
                         CacheGetResult(cacheImpl, cache, cache[i].key, now).hit}
          IN  /\ lastOp'.data.validEntries = Cardinality(hits)
              /\ lastOp'.data.expiredEntries = Len(cache) - Cardinality(hits)]_vars

====
